---- MODULE Spec2Model ----
(***************************************************************************)
(* google-docs-mcp: the OAuth2 session (src/auth/oauth.ts) and the         *)
(* JSON-RPC dispatcher with its HTTP binding (the server entry point,      *)
(* src/unnamed/part_002).                                                  *)
(*                                                                         *)
(* Spec        the server process: concurrent POST /rpc requests, each     *)
(*             running handleJsonRpc step by step between its awaits, the  *)
(*             lazily constructed session singleton, and the token file,   *)
(*             which other processes (bin/auth.ts, the user) rewrite.      *)
(* SpecSession one GoogleOAuth object driven through its public methods.   *)
(* SpecResolve the constructor of GoogleOAuth resolving its client secret. *)
(* SpecAuthFlow                                                            *)
(*             the authorization command (bin/auth.ts) and the requests    *)
(*             to its callback server.                                     *)
(* SpecExtract, SpecPort, SpecTransports                                   *)
(*             the identifier extraction of the tools, the port that       *)
(*             parseArgs resolves, and one tool call handled by the stdio  *)
(*             and by the HTTP handler.                                    *)
(***************************************************************************)
EXTENDS Integers, Sequences, FiniteSets, TLC

\* ------------------------------------------------------------------ bounds

\* Number of POST /rpc requests that may be in flight at the same time.
MaxReq == 2

Slots == 1..MaxReq

\* ------------------------------------------------------------- JS values

\* JavaScript undefined (also: a member that is absent) and null.
Undef == "undefined"
Null == "null"

\* JavaScript truthiness of a string-or-missing value, as used by `!x`.
Truthy(v) == v \notin {Undef, Null, ""}

\* ------------------------------------------------------------- token sets

\* StoredTokens, reduced to the two fields the code ever inspects or that
\* distinguish one grant from another.
Tokens(at, rt) == [access_token |-> at, refresh_token |-> rt]

\* OAuth2Client.credentials of a fresh client: {}.
EmptyTokens == Tokens(Undef, Undef)

AccessOnly == Tokens("at1", Undef)
EmptyRefresh == Tokens("at1", "")
Full1 == Tokens("at1", "rt1")
Full2 == Tokens("at2", "rt2")

TokenSets == {AccessOnly, EmptyRefresh, Full1, Full2}

\* What the token file can hold: no file, a file that cannot be read, a file
\* that is no JSON, the JSON text `null`, or a stored token set.
FileOf(kind, tokens) == [kind |-> kind, tokens |-> tokens]

NoFile == FileOf("missing", EmptyTokens)

\* The .credentials directory itself does not exist.
NoDir == FileOf("nodir", EmptyTokens)

FileStates ==
  {FileOf(k, EmptyTokens) : k \in {"missing", "unreadable", "garbage", "null"}}
    \cup {FileOf("tokens", t) : t \in TokenSets}

\* JSON.stringify(tokens, null, 2): the members whose value is undefined are
\* left out of the text.  The text is kept as the map of the members it has.
TokenFields == {"access_token", "refresh_token"}

JsonStringify(t) == [k \in {f \in TokenFields : t[f] # Undef} |-> t[k]]

\* JSON.parse of such a text, read as StoredTokens: a member the text does
\* not have reads as undefined.
JsonParse(text) ==
  Tokens(IF "access_token" \in DOMAIN text THEN text["access_token"] ELSE Undef,
         IF "refresh_token" \in DOMAIN text THEN text["refresh_token"] ELSE Undef)

\* --------------------------------------------------------- GoogleOAuth

\* loadTokens(): its return value and the credentials it leaves installed.
\* The whole body is inside try/catch, so nothing is thrown.
LoadTokens_NoRefreshCheck(f, c) ==
  IF f.kind = "tokens"
    THEN [ret |-> TRUE, creds |-> f.tokens, threw |-> FALSE]
    ELSE [ret |-> FALSE, creds |-> c, threw |-> FALSE]

LoadTokens_ResetOnFailure(f, c) ==
  IF f.kind = "tokens" /\ Truthy(f.tokens.refresh_token)
    THEN [ret |-> TRUE, creds |-> f.tokens, threw |-> FALSE]
    ELSE [ret |-> FALSE, creds |-> EmptyTokens, threw |-> FALSE]

LoadTokens(f, c) ==
  IF f.kind \in {"missing", "nodir"}
    THEN [ret |-> FALSE, creds |-> c, threw |-> FALSE]      \* !existsSync
  ELSE IF f.kind \in {"unreadable", "garbage", "null"}
    THEN [ret |-> FALSE, creds |-> c, threw |-> FALSE]      \* caught
  ELSE IF ~Truthy(f.tokens.refresh_token)
    THEN [ret |-> FALSE, creds |-> c, threw |-> FALSE]
  ELSE [ret |-> TRUE, creds |-> f.tokens, threw |-> FALSE]  \* setCredentials

\* isAuthenticated(): !!(credentials && credentials.refresh_token).
IsAuthenticated_AnyToken(c) ==
  Truthy(c.refresh_token) \/ Truthy(c.access_token)

IsAuthenticated(c) == Truthy(c.refresh_token)

\* ------------------------------------------------------------ tool catalog

\* One parameter of a tool as a client sees it advertised.
Param(name, type, description, required, default) ==
  [name |-> name, type |-> type, description |-> description,
   required |-> required, default |-> default]

Descriptor(name, description, params) ==
  [name |-> name, description |-> description, params |-> params]

\* A zod field of a server.tool() registration in createServer.
Zod(name, type, optional, default, description) ==
  [name |-> name, type |-> type, optional |-> optional,
   default |-> default, description |-> description]

\* The tools registered in createServer, in registration order.
StdioTools ==
  << [name |-> "get_document",
      description |-> "Get the full content of a Google Doc by its ID or URL",
      shape |-> << Zod("documentId", "string", FALSE, Undef,
                       "The document ID or full Google Docs URL") >>],
     [name |-> "list_documents",
      description |-> "List Google Docs accessible to the user, optionally filtered by search query",
      shape |-> << Zod("limit", "number", TRUE, "10",
                       "Maximum number of documents to return (default: 10)"),
                   Zod("query", "string", TRUE, Undef,
                       "Optional search query to filter documents") >>],
     [name |-> "get_spreadsheet",
      description |-> "Get metadata about a Google Spreadsheet including its sheets",
      shape |-> << Zod("spreadsheetId", "string", FALSE, Undef,
                       "The spreadsheet ID or full Google Sheets URL") >>],
     [name |-> "get_sheet_data",
      description |-> "Read data from a specific range in a Google Spreadsheet",
      shape |-> << Zod("spreadsheetId", "string", FALSE, Undef,
                       "The spreadsheet ID or full Google Sheets URL"),
                   Zod("range", "string", FALSE, Undef,
                       "The A1 notation range to read (e.g., 'Sheet1!A1:D10' or 'A1:D10')") >>],
     [name |-> "list_spreadsheets",
      description |-> "List Google Spreadsheets accessible to the user, optionally filtered by search query",
      shape |-> << Zod("limit", "number", TRUE, "10",
                       "Maximum number of spreadsheets to return (default: 10)"),
                   Zod("query", "string", TRUE, Undef,
                       "Optional search query to filter spreadsheets") >>] >>

\* A property of an inputSchema literal of the tools/list branch.
Prop(name, type, description) ==
  [name |-> name, type |-> type, description |-> description]

\* The `tools` array literal of the tools/list branch of handleJsonRpc.
\* `required` is the set of names in the literal's required array (empty
\* when the literal has none).
HttpTools ==
  << [name |-> "get_document",
      description |-> "Get the full content of a Google Doc by its ID or URL",
      inputSchema |-> [type |-> "object",
        properties |-> << Prop("documentId", "string",
                               "The document ID or full Google Docs URL") >>,
        required |-> {"documentId"}]],
     [name |-> "list_documents",
      description |-> "List Google Docs accessible to the user, optionally filtered by search query",
      inputSchema |-> [type |-> "object",
        properties |-> << Prop("limit", "number",
                               "Maximum number of documents to return (default: 10)"),
                          Prop("query", "string",
                               "Optional search query to filter documents") >>,
        required |-> {}]],
     [name |-> "get_spreadsheet",
      description |-> "Get metadata about a Google Spreadsheet including its sheets",
      inputSchema |-> [type |-> "object",
        properties |-> << Prop("spreadsheetId", "string",
                               "The spreadsheet ID or full Google Sheets URL") >>,
        required |-> {"spreadsheetId"}]],
     [name |-> "get_sheet_data",
      description |-> "Read data from a specific range in a Google Spreadsheet",
      inputSchema |-> [type |-> "object",
        properties |-> << Prop("spreadsheetId", "string",
                               "The spreadsheet ID or full Google Sheets URL"),
                          Prop("range", "string",
                               "The A1 notation range to read (e.g., 'Sheet1!A1:D10')") >>,
        required |-> {"spreadsheetId", "range"}]],
     [name |-> "list_spreadsheets",
      description |-> "List Google Spreadsheets accessible to the user, optionally filtered by search query",
      inputSchema |-> [type |-> "object",
        properties |-> << Prop("limit", "number",
                               "Maximum number of spreadsheets to return (default: 10)"),
                          Prop("query", "string",
                               "Optional search query to filter spreadsheets") >>,
        required |-> {}]] >>

\* What a stdio client is told about a registered tool: a zod field is
\* required unless optional(), and carries its default() when it has one.
StdioDescriptor(t) ==
  Descriptor(t.name, t.description,
    [i \in DOMAIN t.shape |->
       Param(t.shape[i].name, t.shape[i].type, t.shape[i].description,
             ~t.shape[i].optional, t.shape[i].default)])

\* What an HTTP client is told: a property is required when the required
\* array names it; the literals declare no default.
HttpDescriptor(t) ==
  Descriptor(t.name, t.description,
    [i \in DOMAIN t.inputSchema.properties |->
       Param(t.inputSchema.properties[i].name,
             t.inputSchema.properties[i].type,
             t.inputSchema.properties[i].description,
             t.inputSchema.properties[i].name \in t.inputSchema.required,
             Undef)])

StdioCatalog == [i \in DOMAIN StdioTools |-> StdioDescriptor(StdioTools[i])]

HttpCatalog(tools) == [i \in DOMAIN tools |-> HttpDescriptor(tools[i])]

\* The names the switch of the tools/call branch knows.
ToolNames ==
  {"get_document", "list_documents", "get_spreadsheet", "get_sheet_data",
   "list_spreadsheets"}

\* ------------------------------------------------------ request bodies

\* A POST /rpc body: text that is no JSON, the JSON value null, or an
\* object read as an envelope {jsonrpc, method, params, id}.  params is
\* "absent" or "object"; an object carries `name` and `arguments`
\* ("undefined", "empty" for {}, "full" for every schema member supplied,
\* "norange" for get_sheet_data called with a spreadsheetId and no range).
Envelope(v, m, p, n, a, i) ==
  [kind |-> "envelope", jsonrpc |-> v, method |-> m, params |-> p,
   name |-> n, args |-> a, id |-> i]

NoBody == [kind |-> "none", jsonrpc |-> Undef, method |-> Undef,
           params |-> "absent", name |-> Undef, args |-> "undefined",
           id |-> Undef]

Unparsable == [NoBody EXCEPT !.kind = "unparsable"]

NullBody == [NoBody EXCEPT !.kind = "null"]

\* The id a client gives the request it sends on slot r: the ids of
\* requests outstanding at the same time differ.
IdOf(r) == IF r = 1 THEN "1" ELSE IF r = 2 THEN "2" ELSE "3"

Methods == {"initialize", "tools/list", "tools/call", "ping"}

ArgShapes == {"undefined", "empty", "full"}

\* The bodies a client may send with id i.
Bodies(i) ==
  {Unparsable, NullBody}
    \cup {Envelope("2.0", m, "absent", Undef, "undefined", i) : m \in Methods}
    \cup {Envelope("2.0", "tools/call", "object", n, a, i) :
            n \in ToolNames, a \in ArgShapes}
    \cup {Envelope("2.0", "tools/call", "object", n, "full", i) :
            n \in {"no_such_tool", Undef}}
    \cup {Envelope("2.0", "tools/call", "object", "get_sheet_data", "norange", i)}
    \cup {Envelope("1.0", m, "absent", Undef, "undefined", i) : m \in Methods}
    \cup {Envelope("1.0", "tools/call", "object", n, "full", i) :
            n \in {"get_document", "no_such_tool"}}

\* ----------------------------------------------------------- responses

InvalidRequest == -32600
MethodNotFound == -32601
InternalError == -32603
ParseError == -32700

NotAuthenticatedText ==
  "Not authenticated. Please run \"bun run auth\" to authenticate with Google first."

\* Messages of errors raised by the runtime or the remote service.
TypeErrorMessage == "TypeError"
SyntaxErrorMessage == "SyntaxError"
RemoteErrorMessage == "RemoteError"

NoResult == [present |-> FALSE, kind |-> "none", text |-> "",
             isError |-> FALSE, tools |-> << >>]

NoError == [present |-> FALSE, code |-> 0, message |-> ""]

NoResponse == [status |-> 0, via |-> "none", result |-> NoResult,
               error |-> NoError, id |-> Undef]

\* { jsonrpc: "2.0", error: { code, message }, id } returned by handleJsonRpc.
ErrorResponse_NullId(code, message, id) ==
  [status |-> 200, via |-> "return", result |-> NoResult,
   error |-> [present |-> TRUE, code |-> code, message |-> message],
   id |-> Null]

ErrorResponse(code, message, id) ==
  [status |-> 200, via |-> "return", result |-> NoResult,
   error |-> [present |-> TRUE, code |-> code, message |-> message],
   id |-> id]

\* { jsonrpc: "2.0", result, id } returned by handleJsonRpc.
ResultResponse(result, id) ==
  [status |-> 200, via |-> "return", result |-> result, error |-> NoError,
   id |-> id]

\* The catch of the /rpc route: status 400, code -32700, id null.
ParseErrorResponse(message) ==
  [status |-> 400, via |-> "catch", result |-> NoResult,
   error |-> [present |-> TRUE, code |-> ParseError, message |-> message],
   id |-> Null]

\* { content: [{ type: "text", text }] } with or without isError: true.
ToolResult(text, isError) ==
  [present |-> TRUE, kind |-> "tool", text |-> text, isError |-> isError,
   tools |-> << >>]

VersionErrorResponse(id) ==
  ErrorResponse(InvalidRequest, "Invalid JSON-RPC version", id)

InitializeResponse(id) ==
  ResultResponse([present |-> TRUE, kind |-> "initialize",
                  text |-> "google-docs-mcp 1.0.0 2024-11-05",
                  isError |-> FALSE, tools |-> << >>], id)

ToolsListResponse(id) ==
  ResultResponse([present |-> TRUE, kind |-> "tools", text |-> "",
                  isError |-> FALSE, tools |-> HttpTools], id)

NotAuthenticatedResponse(id) ==
  ResultResponse(ToolResult(NotAuthenticatedText, TRUE), id)

UnknownToolResponse(name, id) ==
  ErrorResponse(MethodNotFound, "Unknown tool: " \o name, id)

MethodNotFoundResponse(method, id) ==
  ErrorResponse(MethodNotFound, "Method not found: " \o method, id)

\* The outer catch of handleJsonRpc.
InternalErrorResponse_Both(message, id) ==
  [ErrorResponse(InternalError, message, id) EXCEPT
     !.result = ToolResult("Error: " \o message, TRUE)]

InternalErrorResponse(message, id) ==
  ErrorResponse(InternalError, message, id)

\* The inner catch of the tools/call branch.
ToolErrorResponse_Escalated(message, id) ==
  ErrorResponse(InternalError, message, id)

ToolErrorResponse(message, id) ==
  ResultResponse(ToolResult("Error: " \o message, TRUE), id)

\* ------------------------------------------------------------ the state

VARIABLES
  configured,   \* a client id and secret can be resolved (constructor succeeds)
  instance,     \* oauthInstance: "null" or "constructed"
  creds,        \* oauth2Client.credentials of the session
  credsFile,    \* <base>/.credentials/tokens.json
  req,          \* the POST /rpc requests in flight, one per slot
  call,         \* SpecSession: the session method that completed last
  pending,      \* SpecSession: exchanges and refreshes awaiting the remote
  inflight,     \* SpecSession: the order in which those were sent
  secretFiles,  \* SpecResolve: client_secret.json at its two locations
  environ,      \* SpecResolve: GOOGLE_CLIENT_ID and GOOGLE_CLIENT_SECRET
  built,        \* SpecResolve: what new GoogleOAuth(config) did
  cli,          \* SpecAuthFlow: the bin/auth.ts process
  cb,           \* SpecAuthFlow: the requests to its callback server
  ext,          \* SpecExtract: an identifier extraction and its result
  args,         \* SpecPort: the port variables and what parseArgs made of them
  tool          \* SpecTransports: one tool call sent over both transports

vars == <<configured, instance, creds, credsFile, req, call, pending, inflight,
          secretFiles, environ, built, cli, cb, ext, args, tool>>

\* What only SpecSession changes, and what only Spec changes.
sessionVars == <<call, pending, inflight>>

serverVars == <<configured, instance, req>>

\* What only SpecResolve changes.
resolverVars == <<secretFiles, environ, built>>

\* What only SpecAuthFlow changes.
flowVars == <<cli, cb>>

\* What only the specifications of the pure functions change.
pureVars == <<ext, args, tool>>

\* The token file holds a token set with a non-empty refresh token.
HasRefreshToken(f) ==
  f.kind = "tokens" /\ f.tokens.refresh_token \notin {Undef, ""}

\* A request slot: where its handler stands, the body it was sent, the
\* handler's locals (isAuth of handleJsonRpc, loaded of ensureAuthenticated),
\* and the HTTP response once there is one.  Kept beside them, for the
\* properties: whether the token file held a refresh token when the request
\* was dispatched, how many token loads and remote capability calls the
\* handler has made, and the exception it caught, if any.
Slot(pc, body, stored, isAuth, loaded, loads, remotes, raised, resp) ==
  [pc |-> pc, body |-> body, stored |-> stored, isAuth |-> isAuth,
   loaded |-> loaded, loads |-> loads, remotes |-> remotes,
   raised |-> raised, resp |-> resp]

IdleSlot == Slot("idle", NoBody, FALSE, FALSE, FALSE, 0, 0, "none", NoResponse)

\* --------------------------------------------------- gate and tool calls

\* checkAuth(): getOAuthInstance() then loadTokens(), any throw caught.
\* `loads` is 1 when loadTokens was reached.
CheckAuth_CachedDecision(cfg, inst, f, c) ==
  IF inst = "null" /\ ~cfg
    THEN [ret |-> FALSE, instance |-> "null", creds |-> c, loads |-> 0]
    ELSE LET l == LoadTokens(f, IF inst = "null" THEN EmptyTokens ELSE c)
         IN [ret |-> l.ret \/ (inst # "null" /\ IsAuthenticated(c)),
             instance |-> "constructed", creds |-> l.creds, loads |-> 1]

CheckAuth(cfg, inst, f, c) ==
  IF inst = "null" /\ ~cfg
    THEN [ret |-> FALSE, instance |-> "null", creds |-> c, loads |-> 0]
    ELSE LET l == LoadTokens(f, IF inst = "null" THEN EmptyTokens ELSE c)
         IN [ret |-> l.ret, instance |-> "constructed", creds |-> l.creds,
             loads |-> 1]

\* ensureAuthenticated(): getOAuthInstance() then loadTokens(); throws when
\* the constructor throws or the load returns false.
EnsureAuthenticated(cfg, inst, f, c) ==
  IF inst = "null" /\ ~cfg
    THEN [ok |-> FALSE, message |-> "Google credentials not found.",
          instance |-> "null", creds |-> c, loads |-> 0]
    ELSE LET l == LoadTokens(f, IF inst = "null" THEN EmptyTokens ELSE c)
         IN [ok |-> l.ret, message |-> NotAuthenticatedText,
             instance |-> "constructed", creds |-> l.creds, loads |-> 1]

\* Tools whose first argument goes through extractDocumentId or
\* extractSpreadsheetId, which call idOrUrl.includes(...).
ExtractsId(name) ==
  name \in {"get_document", "get_spreadsheet", "get_sheet_data"}

\* The text a tool renders from what the remote service returned.
RenderText(name, outcome) ==
  IF outcome = "empty" /\ name = "list_documents" THEN "No documents found."
  ELSE IF outcome = "empty" /\ name = "list_spreadsheets"
    THEN "No spreadsheets found."
  ELSE IF outcome = "empty" /\ name = "get_sheet_data"
    THEN "No data found in the specified range."
  ELSE "Rendered " \o name

\* ------------------------------------------------- handleJsonRpc, by step

\* A handler's position after a step: Finished(resp) or waiting on an await.
Finished(resp) ==
  [pc |-> "done", resp |-> resp, flag |-> FALSE, loads |-> 0, remotes |-> 0,
   raised |-> "none"]

\* The handler caught the exception `raised` and answered it with resp.
Caught(raised, resp) == [Finished(resp) EXCEPT !.raised = raised]

Waiting(pc, flag, loads, remotes) ==
  [pc |-> pc, resp |-> NoResponse, flag |-> flag, loads |-> loads,
   remotes |-> remotes, raised |-> "none"]

\* handleJsonRpc from its entry to its first await (await checkAuth()).
HandleStart_VersionLast(b, auth) ==
  IF b.method = "initialize" THEN Finished(InitializeResponse(b.id))
  ELSE IF b.method = "tools/list" THEN Finished(ToolsListResponse(b.id))
  ELSE IF b.jsonrpc # "2.0" THEN Finished(VersionErrorResponse(b.id))
  ELSE IF b.method = "tools/call"
    THEN IF b.params = "absent"
           THEN Caught("TypeError",
                       InternalErrorResponse(TypeErrorMessage, b.id))
           ELSE Waiting("gate", auth.ret, auth.loads, 0)
  ELSE Finished(MethodNotFoundResponse(b.method, b.id))

HandleStart(b, auth) ==
  IF b.jsonrpc # "2.0" THEN Finished(VersionErrorResponse(b.id))
  ELSE IF b.method = "initialize" THEN Finished(InitializeResponse(b.id))
  ELSE IF b.method = "tools/list" THEN Finished(ToolsListResponse(b.id))
  ELSE IF b.method = "tools/call"
    THEN IF b.params = "absent"
           THEN Caught("TypeError",
                       InternalErrorResponse(TypeErrorMessage, b.id))
           ELSE Waiting("gate", auth.ret, auth.loads, 0)
  ELSE Finished(MethodNotFoundResponse(b.method, b.id))

\* Whether that stretch of handleJsonRpc runs checkAuth().
ReachesGate_EveryEnvelope(b) == b.kind = "envelope"

ReachesGate(b) ==
  /\ b.kind = "envelope"
  /\ b.jsonrpc = "2.0"
  /\ b.method = "tools/call"
  /\ b.params = "object"

\* The /rpc route of the fetch handler: req.json(), then handleJsonRpc.
\* A body of null makes handleJsonRpc throw while destructuring it.
Fetch_ParseInDispatcher(b, auth) ==
  IF b.kind = "unparsable"
    THEN Caught("SyntaxError", InternalErrorResponse(SyntaxErrorMessage, Null))
  ELSE IF b.kind = "null"
    THEN Caught("TypeError", ParseErrorResponse(TypeErrorMessage))
  ELSE HandleStart(b, auth)

Fetch(b, auth) ==
  IF b.kind = "unparsable"
    THEN Caught("SyntaxError", ParseErrorResponse(SyntaxErrorMessage))
  ELSE IF b.kind = "null"
    THEN Caught("TypeError", ParseErrorResponse(TypeErrorMessage))
  ELSE HandleStart(b, auth)

\* After await checkAuth(): the gate, the switch on the tool name, the
\* evaluation of the tool's arguments, and the tool function up to its
\* await ensureAuthenticated().
AfterGate_UnknownInsideTry(b, isAuth, ens) ==
  IF ~isAuth THEN Finished(NotAuthenticatedResponse(b.id))
  ELSE IF b.name \notin ToolNames
    THEN Caught("Error", ToolErrorResponse("Unknown tool: " \o b.name, b.id))
  ELSE IF b.args = "undefined"
    THEN Caught("TypeError", ToolErrorResponse(TypeErrorMessage, b.id))
  ELSE Waiting("ensure", ens.ok, ens.loads, 0)

AfterGate(b, isAuth, ens) ==
  IF ~isAuth THEN Finished(NotAuthenticatedResponse(b.id))
  ELSE IF b.name \notin ToolNames
    THEN Finished(UnknownToolResponse(b.name, b.id))
  ELSE IF b.args = "undefined"
    THEN Caught("TypeError", ToolErrorResponse(TypeErrorMessage, b.id))
  ELSE Waiting("ensure", ens.ok, ens.loads, 0)

\* Whether that stretch calls the tool function, hence ensureAuthenticated().
ReachesEnsure(b, isAuth) ==
  isAuth /\ b.name \in ToolNames /\ b.args # "undefined"

\* After await ensureAuthenticated(): the throw when nothing was loaded,
\* the id extraction, and the remote call being issued.
AfterEnsure_IgnoresLoaded(b, loaded, message) ==
  IF ExtractsId(b.name) /\ b.args = "empty"
    THEN Caught("TypeError", ToolErrorResponse(TypeErrorMessage, b.id))
  ELSE Waiting("remote", FALSE, 0, 1)

AfterEnsure(b, loaded, message) ==
  IF ~loaded THEN Caught("Error", ToolErrorResponse(message, b.id))
  ELSE IF ExtractsId(b.name) /\ b.args = "empty"
    THEN Caught("TypeError", ToolErrorResponse(TypeErrorMessage, b.id))
  ELSE Waiting("remote", FALSE, 0, 1)

\* After the remote call settles: the rendered result, or the inner catch.
AfterRemote(b, outcome) ==
  IF outcome = "reject"
    THEN Caught("RemoteError", ToolErrorResponse(RemoteErrorMessage, b.id))
    ELSE Finished(ResultResponse(ToolResult(RenderText(b.name, outcome), FALSE),
                                 b.id))

RemoteOutcomes == {"data", "empty", "reject"}

\* --------------------------------------------------------------- actions

\* The slot after a handler step that left it at position `p`.
Advance(old, p, isAuth, loaded) ==
  Slot(p.pc, old.body, old.stored, isAuth, loaded, old.loads + p.loads,
       old.remotes + p.remotes, p.raised, p.resp)

\* A POST /rpc arrives with body b: the route parses it and runs
\* handleJsonRpc up to its first await, or to its return.
Receive(r, b) ==
  /\ req[r].pc = "idle"
  /\ LET auth == CheckAuth(configured, instance, credsFile, creds)
         p == Fetch(b, auth)
         fresh == [IdleSlot EXCEPT !.body = b,
                                   !.stored = HasRefreshToken(credsFile)]
     IN /\ req' = [req EXCEPT ![r] = Advance(fresh, p, p.flag, FALSE)]
        /\ IF ReachesGate(b)
             THEN instance' = auth.instance /\ creds' = auth.creds
             ELSE UNCHANGED <<instance, creds>>
  /\ UNCHANGED <<configured, credsFile, sessionVars, resolverVars,
                 flowVars, pureVars>>

\* The continuation of handleJsonRpc after await checkAuth().
Gate(r) ==
  /\ req[r].pc = "gate"
  /\ LET b == req[r].body
         ens == EnsureAuthenticated(configured, instance, credsFile, creds)
         p == AfterGate(b, req[r].isAuth, ens)
     IN /\ req' = [req EXCEPT ![r] = Advance(req[r], p, req[r].isAuth, p.flag)]
        /\ IF ReachesEnsure(b, req[r].isAuth)
             THEN instance' = ens.instance /\ creds' = ens.creds
             ELSE UNCHANGED <<instance, creds>>
  /\ UNCHANGED <<configured, credsFile, sessionVars, resolverVars,
                 flowVars, pureVars>>

\* The continuation of the tool function after await ensureAuthenticated().
Ensure(r) ==
  /\ req[r].pc = "ensure"
  /\ LET message == IF instance = "null"
                      THEN "Google credentials not found."
                      ELSE NotAuthenticatedText
         p == AfterEnsure(req[r].body, req[r].loaded, message)
     IN req' = [req EXCEPT ![r] = Advance(req[r], p, req[r].isAuth, req[r].loaded)]
  /\ UNCHANGED <<configured, instance, creds, credsFile, sessionVars, resolverVars,
                 flowVars, pureVars>>

\* The remote capability call settles.
Remote(r, outcome) ==
  /\ req[r].pc = "remote"
  /\ LET p == AfterRemote(req[r].body, outcome)
     IN req' = [req EXCEPT ![r] = Advance(req[r], p, req[r].isAuth, req[r].loaded)]
  /\ UNCHANGED <<configured, instance, creds, credsFile, sessionVars, resolverVars,
                 flowVars, pureVars>>

\* The response has been sent; the slot is free again.
Deliver(r) ==
  /\ req[r].pc = "done"
  /\ req' = [req EXCEPT ![r] = IdleSlot]
  /\ UNCHANGED <<configured, instance, creds, credsFile, sessionVars, resolverVars,
                 flowVars, pureVars>>

\* Another process rewrites or removes the token file (bin/auth.ts saving a
\* grant, the user deleting .credentials).
FileChange(f) ==
  /\ f # credsFile
  /\ credsFile' = f
  /\ UNCHANGED <<configured, instance, creds, req, sessionVars, resolverVars,
                 flowVars, pureVars>>

\* client_secret.json or the environment variables appear or disappear;
\* they are read by the constructor only, so only until the singleton exists.
ConfigChange ==
  /\ instance = "null"
  /\ configured' = ~configured
  /\ UNCHANGED <<instance, creds, credsFile, req, sessionVars, resolverVars,
                 flowVars, pureVars>>

\* ------------------------------------------- the session, method by method

\* Number of callers that may each have one exchange or refresh in flight.
MaxCallers == 2

Callers == 1..MaxCallers

\* What the last completed method did: its name, what it returned (for the
\* boolean methods), whether it threw, the token file it found, and whether
\* it read the store or called the remote service.  Kept beside them, for
\* the properties: whether the session was authenticated before it (was),
\* the token set it was given or granted (arg), the token file as it left
\* it (left), for a load whether it came right after a save whose file
\* nobody touched in between (follows; arg is then that save's argument,
\* and over whether the file that save overwrote held a refresh token), and
\* for an exchange or
\* refresh whether it replaced, in memory and in the file, the different
\* tokens that a request sent after its own had already written (stale).
Call(op, ret, threw, file, read, remote) ==
  [op |-> op, ret |-> ret, threw |-> threw, file |-> file, read |-> read,
   remote |-> remote, was |-> FALSE, arg |-> EmptyTokens,
   over |-> FALSE, left |-> NoFile, follows |-> FALSE, stale |-> FALSE]

NoCall == Call("none", FALSE, FALSE, NoFile, FALSE, FALSE)

\* Token responses of the authorization server to a code exchange: with a
\* refresh token, or with an access token only.
Grants == {Full1, Full2, AccessOnly}

AccessTokens == {"at1", "at2"}

\* The client factories and getClient().
Factories == {"getClient", "getDocsClient", "getSheetsClient", "getDriveClient"}

\* The requests in flight: `issued` lists their callers in the order the
\* requests were sent, which is the order the authorization server answers
\* them in; `overtaken` holds the callers among them for whom a request sent
\* later has already come back and written its tokens.  Responses reach the
\* process in any order.
NoneInFlight == [issued |-> << >>, overtaken |-> {}]

SentBefore(k) ==
  {inflight.issued[i] : i \in {j \in DOMAIN inflight.issued :
                                 \E h \in DOMAIN inflight.issued :
                                   h > j /\ inflight.issued[h] = k}}

Sent(k) == [inflight EXCEPT !.issued = Append(@, k)]

Settled(k, wrote) ==
  [issued |-> SelectSeq(inflight.issued, LAMBDA j : j # k),
   overtaken |-> IF wrote THEN (inflight.overtaken \cup SentBefore(k)) \ {k}
                          ELSE inflight.overtaken \ {k}]

\* saveTokens(tokens): mkdir when the directory is missing, then
\* writeFileSync of the whole JSON text of `tokens`.
SaveTokens_Merge(f, t) ==
  IF f.kind = "tokens"
    THEN FileOf("tokens",
           Tokens(IF t.access_token = Undef THEN f.tokens.access_token
                                            ELSE t.access_token,
                  IF t.refresh_token = Undef THEN f.tokens.refresh_token
                                             ELSE t.refresh_token))
    ELSE FileOf("tokens", JsonParse(JsonStringify(t)))

SaveTokens(f, t) == FileOf("tokens", JsonParse(JsonStringify(t)))

\* await oauth.loadTokens()
LoadTokensCall ==
  /\ LET l == LoadTokens(credsFile, creds)
         follows == call.op = "saveTokens" /\ call.left = credsFile
     IN /\ creds' = l.creds
        /\ call' = [Call("loadTokens", l.ret, l.threw, credsFile, TRUE, FALSE)
                      EXCEPT !.was = IsAuthenticated(creds), !.left = credsFile,
                             !.follows = follows,
                             !.arg = IF follows THEN call.arg ELSE EmptyTokens,
                             !.over = follows /\ call.over]
  /\ UNCHANGED <<credsFile, pending, inflight, serverVars, resolverVars,
                 flowVars, pureVars>>

\* oauth.isAuthenticated()
IsAuthenticatedCall ==
  /\ call' = [Call("isAuthenticated", IsAuthenticated(creds), FALSE, NoFile,
                   FALSE, FALSE) EXCEPT !.was = IsAuthenticated(creds)]
  /\ UNCHANGED <<creds, credsFile, pending, inflight, serverVars, resolverVars,
                 flowVars, pureVars>>

\* await oauth.saveTokens(t)
SaveTokensCall(t) ==
  /\ credsFile' = SaveTokens(credsFile, t)
  /\ call' = [Call("saveTokens", FALSE, FALSE, NoFile, FALSE, FALSE)
                EXCEPT !.was = IsAuthenticated(creds), !.arg = t,
                       !.over = HasRefreshToken(credsFile),
                       !.left = SaveTokens(credsFile, t)]
  /\ UNCHANGED <<creds, pending, inflight, serverVars, resolverVars,
                 flowVars, pureVars>>

\* oauth.getAuthUrl()
GetAuthUrlCall ==
  /\ call' = [Call("getAuthUrl", FALSE, FALSE, NoFile, FALSE, FALSE)
                EXCEPT !.was = IsAuthenticated(creds)]
  /\ UNCHANGED <<creds, credsFile, pending, inflight, serverVars, resolverVars,
                 flowVars, pureVars>>

\* oauth.getClient(), getDocsClient(), getSheetsClient(), getDriveClient()
FactoryCall(f) ==
  /\ call' = [Call(f, FALSE, FALSE, NoFile, FALSE, FALSE)
                EXCEPT !.was = IsAuthenticated(creds)]
  /\ UNCHANGED <<creds, credsFile, pending, inflight, serverVars, resolverVars,
                 flowVars, pureVars>>

\* oauth.exchangeCodeForTokens(code) is called: getToken(code) is sent.
ExchangeCall(k) ==
  /\ pending[k] = "none"
  /\ pending' = [pending EXCEPT ![k] = "exchange"]
  /\ inflight' = Sent(k)
  /\ UNCHANGED <<creds, credsFile, call, serverVars, resolverVars,
                 flowVars, pureVars>>

\* getToken rejects: exchangeCodeForTokens throws.
ExchangeReject(k) ==
  /\ pending[k] = "exchange"
  /\ pending' = [pending EXCEPT ![k] = "none"]
  /\ inflight' = Settled(k, FALSE)
  /\ call' = [Call("exchange", FALSE, TRUE, NoFile, FALSE, TRUE)
                EXCEPT !.was = IsAuthenticated(creds)]
  /\ UNCHANGED <<creds, credsFile, serverVars, resolverVars,
                 flowVars, pureVars>>

\* getToken resolves with the tokens g: they are installed and saved.
ExchangeReturn_SaveOnly(k, g) ==
  /\ pending[k] = "exchange"
  /\ pending' = [pending EXCEPT ![k] = "none"]
  /\ inflight' = Settled(k, TRUE)
  /\ credsFile' = SaveTokens(credsFile, g)
  /\ call' = [Call("exchange", FALSE, FALSE, NoFile, FALSE, TRUE)
                EXCEPT !.was = IsAuthenticated(creds), !.arg = g]
  /\ UNCHANGED <<creds, serverVars, resolverVars, flowVars, pureVars>>

ExchangeReturn(k, g) ==
  /\ pending[k] = "exchange"
  /\ pending' = [pending EXCEPT ![k] = "none"]
  /\ inflight' = Settled(k, TRUE)
  /\ creds' = g
  /\ credsFile' = SaveTokens(credsFile, g)
  /\ call' = [Call("exchange", FALSE, FALSE, NoFile, FALSE, TRUE)
                EXCEPT !.was = IsAuthenticated(creds), !.arg = g,
                       !.stale = /\ k \in inflight.overtaken
                                 /\ creds # g
                                 /\ credsFile # SaveTokens(credsFile, g)]
  /\ UNCHANGED <<serverVars, resolverVars, flowVars, pureVars>>

\* oauth.refreshAccessToken() is called: the client rejects at once when it
\* holds no refresh token, and otherwise asks the authorization server.
RefreshCall(k) ==
  /\ pending[k] = "none"
  /\ IF Truthy(creds.refresh_token)
       THEN /\ pending' = [pending EXCEPT ![k] = "refresh"]
            /\ inflight' = Sent(k)
            /\ UNCHANGED call
       ELSE /\ call' = [Call("refresh", FALSE, TRUE, NoFile, FALSE, FALSE)
                          EXCEPT !.was = IsAuthenticated(creds)]
            /\ UNCHANGED <<pending, inflight>>
  /\ UNCHANGED <<creds, credsFile, serverVars, resolverVars,
                 flowVars, pureVars>>

\* The authorization server rejects the refresh (the refresh token is
\* revoked or expired): refreshAccessToken throws at its first statement.
RefreshReject_Demotes(k) ==
  /\ pending[k] = "refresh"
  /\ pending' = [pending EXCEPT ![k] = "none"]
  /\ inflight' = Settled(k, FALSE)
  /\ creds' = EmptyTokens
  /\ call' = [Call("refresh", FALSE, TRUE, NoFile, FALSE, TRUE)
                EXCEPT !.was = IsAuthenticated(creds)]
  /\ UNCHANGED <<credsFile, serverVars, resolverVars, flowVars, pureVars>>

RefreshReject(k) ==
  /\ pending[k] = "refresh"
  /\ pending' = [pending EXCEPT ![k] = "none"]
  /\ inflight' = Settled(k, FALSE)
  /\ call' = [Call("refresh", FALSE, TRUE, NoFile, FALSE, TRUE)
                EXCEPT !.was = IsAuthenticated(creds)]
  /\ UNCHANGED <<creds, credsFile, serverVars, resolverVars,
                 flowVars, pureVars>>

\* The refresh resolves: the new access token is installed beside the
\* refresh token the client holds, and saved.
RefreshReturn_StoredRefreshToken(k, at) ==
  /\ pending[k] = "refresh"
  /\ pending' = [pending EXCEPT ![k] = "none"]
  /\ inflight' = Settled(k, TRUE)
  /\ LET t == Tokens(at, IF credsFile.kind = "tokens"
                           THEN credsFile.tokens.refresh_token
                           ELSE creds.refresh_token)
     IN /\ creds' = t
        /\ credsFile' = SaveTokens(credsFile, t)
        /\ call' = [Call("refresh", FALSE, FALSE, NoFile, FALSE, TRUE)
                      EXCEPT !.was = IsAuthenticated(creds), !.arg = t,
                             !.stale = /\ k \in inflight.overtaken
                                       /\ creds # t
                                       /\ credsFile # SaveTokens(credsFile, t)]
  /\ UNCHANGED <<serverVars, resolverVars, flowVars, pureVars>>

RefreshReturn(k, at) ==
  /\ pending[k] = "refresh"
  /\ pending' = [pending EXCEPT ![k] = "none"]
  /\ inflight' = Settled(k, TRUE)
  /\ LET t == Tokens(at, creds.refresh_token)
     IN /\ creds' = t
        /\ credsFile' = SaveTokens(credsFile, t)
        /\ call' = [Call("refresh", FALSE, FALSE, NoFile, FALSE, TRUE)
                      EXCEPT !.was = IsAuthenticated(creds), !.arg = t,
                             !.stale = /\ k \in inflight.overtaken
                                       /\ creds # t
                                       /\ credsFile # SaveTokens(credsFile, t)]
  /\ UNCHANGED <<serverVars, resolverVars, flowVars, pureVars>>

\* ------------------------------------------------- credential resolution

\* A section of client_secret.json ("installed" or "web"): absent, or an
\* object with client_id, client_secret and redirect_uris; `listed` tells
\* whether the object has a redirect_uris member at all.
Section(client_id, client_secret, listed, redirect_uris) ==
  [present |-> TRUE, client_id |-> client_id, client_secret |-> client_secret,
   listed |-> listed, redirect_uris |-> redirect_uris]

NoSection ==
  [present |-> FALSE, client_id |-> Undef, client_secret |-> Undef,
   listed |-> FALSE, redirect_uris |-> << >>]

\* The two candidate locations, in the order loadClientSecret lists them:
\* <base>/client_secret.json, then <base>/.credentials/client_secret.json.
PossiblePaths_NestedFirst == << "nested", "root" >>

PossiblePaths == << "root", "nested" >>

\* The sections a file at location p may hold under the layout l; every
\* value names the place it comes from.
Sections(p, l) ==
  LET at == p \o "." \o l
  IN {NoSection,
      Section(at \o ".client_id", at \o ".client_secret", TRUE,
              << at \o ".uri1", at \o ".uri2" >>),
      Section(at \o ".client_id", at \o ".client_secret", FALSE, << >>),
      Section(at \o ".client_id", Undef, TRUE, << >>),
      Section(Undef, Undef, FALSE, << >>)}

\* A candidate file: missing, unreadable, no JSON, the JSON text `null`, or
\* a JSON object with its installed and web members.
SecretFile(kind, installed, web) ==
  [kind |-> kind, installed |-> installed, web |-> web]

SecretFiles(p) ==
  {SecretFile(k, NoSection, NoSection) :
     k \in {"missing", "unreadable", "garbage", "null"}}
    \cup {SecretFile("json", i, w) :
            i \in Sections(p, "installed"), w \in Sections(p, "web")}

DefaultRedirectUri == "http://localhost:3000/oauth2callback"

\* JavaScript a || b.
Or(a, b) == IF Truthy(a) THEN a ELSE b

\* secret.installed || secret.web
SectionOf(f) == IF f.installed.present THEN f.installed ELSE f.web

\* credentials.redirect_uris?.[0] || "http://localhost:3000/oauth2callback"
RedirectUriOf(credentials) ==
  IF credentials.listed /\ Len(credentials.redirect_uris) > 0
    THEN Or(credentials.redirect_uris[1], DefaultRedirectUri)
    ELSE DefaultRedirectUri

\* loadClientSecret returned null.
NoFileConfig(probed) ==
  [found |-> FALSE, clientId |-> Undef, clientSecret |-> Undef,
   redirectUri |-> Undef, probed |-> probed]

\* The loop of loadClientSecret from the i-th path on; `probed` lists the
\* paths it has called existsSync on.  A file that cannot be read, is no
\* JSON or is `null` throws inside the try and the loop goes on; so does a
\* JSON value with neither section.
RECURSIVE Probe(_, _, _)
Probe(files, i, probed) ==
  IF i > Len(PossiblePaths) THEN NoFileConfig(probed)
  ELSE LET path == PossiblePaths[i]
           f == files[path]
           seen == Append(probed, path)
       IN IF f.kind = "json" /\ SectionOf(f).present
            THEN [found |-> TRUE,
                  clientId |-> SectionOf(f).client_id,
                  clientSecret |-> SectionOf(f).client_secret,
                  redirectUri |-> RedirectUriOf(SectionOf(f)),
                  probed |-> seen]
            ELSE Probe(files, i + 1, seen)

LoadClientSecret(files) == Probe(files, 1, << >>)

\* An explicit config (Partial<OAuthConfig>) and the environment.
Config(clientId, clientSecret, redirectUri) ==
  [clientId |-> clientId, clientSecret |-> clientSecret,
   redirectUri |-> redirectUri]

Configs ==
  {Config(i, s, u) : i \in {Undef, "", "explicit.client_id"},
                     s \in {Undef, "", "explicit.client_secret"},
                     u \in {Undef, "explicit.redirect_uri"}}

Environ(id, secret) ==
  [GOOGLE_CLIENT_ID |-> id, GOOGLE_CLIENT_SECRET |-> secret]

Environs ==
  {Environ(i, s) : i \in {Undef, "", "env.client_id"},
                   s \in {Undef, "", "env.client_secret"}}

\* new GoogleOAuth(config): what it resolved, whether it threw "Google
\* credentials not found", and what its call of loadClientSecret returned.
Constructor_EnvFirst(config, files, env) ==
  LET fileConfig == LoadClientSecret(files)
      clientId == Or(config.clientId,
                     Or(env.GOOGLE_CLIENT_ID, fileConfig.clientId))
      clientSecret == Or(config.clientSecret,
                         Or(env.GOOGLE_CLIENT_SECRET, fileConfig.clientSecret))
      redirectUri == Or(config.redirectUri,
                        Or(fileConfig.redirectUri, DefaultRedirectUri))
  IN [called |-> TRUE, config |-> config,
      threw |-> ~Truthy(clientId) \/ ~Truthy(clientSecret),
      clientId |-> clientId, clientSecret |-> clientSecret,
      redirectUri |-> redirectUri, fileConfig |-> fileConfig]

Constructor_FileRequired(config, files, env) ==
  LET fileConfig == LoadClientSecret(files)
      clientId == Or(config.clientId,
                     Or(fileConfig.clientId, env.GOOGLE_CLIENT_ID))
      clientSecret == Or(config.clientSecret,
                         Or(fileConfig.clientSecret, env.GOOGLE_CLIENT_SECRET))
      redirectUri == Or(config.redirectUri,
                        Or(fileConfig.redirectUri, DefaultRedirectUri))
  IN [called |-> TRUE, config |-> config,
      threw |-> ~fileConfig.found \/ ~Truthy(clientId)
                  \/ ~Truthy(clientSecret),
      clientId |-> clientId, clientSecret |-> clientSecret,
      redirectUri |-> redirectUri, fileConfig |-> fileConfig]

Constructor(config, files, env) ==
  LET fileConfig == LoadClientSecret(files)
      clientId == Or(config.clientId,
                     Or(fileConfig.clientId, env.GOOGLE_CLIENT_ID))
      clientSecret == Or(config.clientSecret,
                         Or(fileConfig.clientSecret, env.GOOGLE_CLIENT_SECRET))
      redirectUri == Or(config.redirectUri,
                        Or(fileConfig.redirectUri, DefaultRedirectUri))
  IN [called |-> TRUE, config |-> config,
      threw |-> ~Truthy(clientId) \/ ~Truthy(clientSecret),
      clientId |-> clientId, clientSecret |-> clientSecret,
      redirectUri |-> redirectUri, fileConfig |-> fileConfig]

\* No GoogleOAuth has been constructed yet.
NotBuilt ==
  [called |-> FALSE, config |-> Config(Undef, Undef, Undef), threw |-> FALSE,
   clientId |-> Undef, clientSecret |-> Undef, redirectUri |-> Undef,
   fileConfig |-> NoFileConfig(<< >>)]

NoSecretFiles ==
  [p \in {"root", "nested"} |-> SecretFile("missing", NoSection, NoSection)]

\* new GoogleOAuth(config)
Construct(config) ==
  /\ ~built.called
  /\ built' = Constructor(config, secretFiles, environ)
  /\ UNCHANGED <<secretFiles, environ, creds, credsFile, serverVars,
                 sessionVars, flowVars, pureVars>>

\* ------------------------------------------------- the authorization flow
\* bin/auth.ts: runAuthFlow and the fetch handler of its callback server.

\* Number of requests that reach the callback server while it listens.
MaxHits == 2

Hits == 1..MaxHits

\* The paths a request asks for, and url.searchParams.get of its code and
\* error parameters: null when the parameter is absent.
Paths == {"/oauth2callback", "/"}

CodeParams == {Null, "code1"}

ErrorParams == {Null, "", "access_denied"}

\* The response of the fetch handler; none while it awaits the exchange,
\* and none at all when the handler ends the process.
Reply(status, body) == [status |-> status, body |-> body]

NoReply == Reply(0, "none")

\* A request to the callback server: where its handler stands, what it
\* asked for and what it was answered.
Hit(pc, path, code, error, resp) ==
  [pc |-> pc, path |-> path, code |-> code, error |-> error, resp |-> resp]

IdleHit == Hit("idle", "/", Null, Null, NoReply)

\* The process: where runAuthFlow stands ("start", "serving" once Bun.serve
\* listens, "exited"), its exit status, the shutdown timers that are armed,
\* and, for the properties, how often exchangeCodeForTokens was invoked and
\* the events of the flow in the order they happened.
Cli(pc, exit, timers, exchanges, log) ==
  [pc |-> pc, exit |-> exit, timers |-> timers, exchanges |-> exchanges,
   log |-> log]

NotRun == Cli("start", "none", 0, 0, << >>)

Event(ev, hit) == [ev |-> ev, hit |-> hit]

\* server.stop(); process.exit(status)
Exit(c, status) ==
  [c EXCEPT !.pc = "exited", !.exit = status,
            !.log = @ \o <<Event("stop", 0), Event("exit", 0)>>]

\* runAuthFlow up to Bun.serve: the constructor failing ends the process
\* with status 1, tokens that load end it with status 0.
RunAuthFlow ==
  /\ cli.pc = "start"
  /\ LET l == LoadTokens(credsFile, creds)
     IN IF ~configured
          THEN cli' = Exit(cli, "1") /\ UNCHANGED creds
          ELSE /\ creds' = l.creds
               /\ cli' = IF l.ret THEN Exit(cli, "0")
                                  ELSE [cli EXCEPT !.pc = "serving"]
  /\ UNCHANGED <<configured, instance, credsFile, req, cb, sessionVars,
                 resolverVars, pureVars>>

\* What the fetch handler does with a request before its first await.
Callback_CodeFirst(path, code, error) ==
  IF path # "/oauth2callback" THEN "notfound"
  ELSE IF Truthy(code) THEN "exchange"
  ELSE IF Truthy(error) THEN "error"
  ELSE "nocode"

Callback(path, code, error) ==
  IF path # "/oauth2callback" THEN "notfound"
  ELSE IF Truthy(error) THEN "error"
  ELSE IF ~Truthy(code) THEN "nocode"
  ELSE "exchange"

\* A request arrives and its handler runs up to the await of the exchange,
\* to its return, or to process.exit.
CallbackRequest(r, path, code, error) ==
  /\ cli.pc = "serving"
  /\ cb[r].pc = "idle"
  /\ LET does == Callback(path, code, error)
         hit(pc, resp) == Hit(pc, path, code, error, resp)
     IN CASE does = "notfound" ->
               /\ cb' = [cb EXCEPT ![r] = hit("done", Reply(404, "Not found"))]
               /\ UNCHANGED cli
          [] does = "error" ->
               /\ cb' = [cb EXCEPT ![r] = hit("dead", NoReply)]
               /\ cli' = Exit(cli, "1")
          [] does = "nocode" ->
               /\ cb' = [cb EXCEPT ![r] =
                           hit("done",
                               Reply(400, "No authorization code received"))]
               /\ UNCHANGED cli
          [] does = "exchange" ->
               /\ cb' = [cb EXCEPT ![r] = hit("exchange", NoReply)]
               /\ cli' = [cli EXCEPT !.exchanges = @ + 1,
                                     !.log = Append(@, Event("exchange", r))]
  /\ UNCHANGED <<configured, instance, creds, credsFile, req, sessionVars,
                 resolverVars, pureVars>>

\* The exchange of request r comes back with a grant: the tokens are
\* installed and saved, the shutdown timer is armed and the confirmation
\* page is returned.
CallbackExchanged(r, g) ==
  /\ cli.pc = "serving"
  /\ cb[r].pc = "exchange"
  /\ creds' = g
  /\ credsFile' = SaveTokens(credsFile, g)
  /\ cb' = [cb EXCEPT ![r].pc = "done",
                      ![r].resp = Reply(200, "Authentication Successful!")]
  /\ cli' = [cli EXCEPT !.timers = @ + 1,
                        !.log = @ \o <<Event("saved", r), Event("response", r)>>]
  /\ UNCHANGED <<configured, instance, req, sessionVars, resolverVars,
                 pureVars>>

\* The exchange of request r is rejected: the catch ends the process.
CallbackFailed(r) ==
  /\ cli.pc = "serving"
  /\ cb[r].pc = "exchange"
  /\ cb' = [cb EXCEPT ![r].pc = "dead"]
  /\ cli' = Exit(cli, "1")
  /\ UNCHANGED <<configured, instance, creds, credsFile, req, sessionVars,
                 resolverVars, pureVars>>

\* A shutdown timer fires: server.stop(); process.exit(0).
GraceElapsed ==
  /\ cli.pc = "serving"
  /\ cli.timers > 0
  /\ cli' = Exit(cli, "0")
  /\ UNCHANGED <<configured, instance, creds, credsFile, req, cb, sessionVars,
                 resolverVars, pureVars>>

\* -------------------------------------------------- identifier extraction
\* extractDocumentId (tools/docs.ts) and extractSpreadsheetId
\* (tools/sheets.ts).  A string is kept as the sequence of the pieces it is
\* made of; no piece but Host contains "google", and none but the two
\* paths contains "/d/".

\* Number of pieces of an input string.
MaxSegments == 5

Host == "docs.google.com"
DocumentPath == "/document/d/"
SpreadsheetPath == "/spreadsheets/d/"

Segments ==
  {"https://", Host, DocumentPath, SpreadsheetPath, "ABC123", "/edit", "?ref="}

Inputs == UNION {[1..n -> Segments] : n \in 0..MaxSegments}

\* The string itself.
RECURSIVE Text(_)
Text(s) == IF s = << >> THEN "" ELSE Head(s) \o Text(Tail(s))

\* The longest prefix of a piece that [a-zA-Z0-9_-]+ can consume, and
\* whether that is the whole piece.
IdHead(seg) ==
  CASE seg = "ABC123" -> "ABC123"
    [] seg = "https://" -> "https"
    [] seg = Host -> "docs"
    [] OTHER -> ""

AllId(seg) == IdHead(seg) = seg

\* What ([a-zA-Z0-9_-]+) consumes from piece i on.
RECURSIVE IdRun(_, _)
IdRun(s, i) ==
  IF i > Len(s) THEN ""
  ELSE IF AllId(s[i]) THEN s[i] \o IdRun(s, i + 1)
  ELSE IdHead(s[i])

\* idOrUrl.includes(sub) for the two substrings the code asks for.
Includes(s, sub) ==
  IF sub = Host THEN \E i \in 1..Len(s) : s[i] = Host
  ELSE \E i \in 1..(Len(s) - 1) : s[i] = Host /\ s[i + 1] = SpreadsheetPath

\* idOrUrl.match(/<path>([a-zA-Z0-9_-]+)/): the capture of the leftmost
\* match, or null.
Match(s, path) ==
  LET at == {i \in 1..Len(s) : s[i] = path /\ IdRun(s, i + 1) # ""}
  IN IF at = {} THEN Null
     ELSE IdRun(s, (CHOOSE i \in at : \A j \in at : i <= j) + 1)

ExtractDocumentId(s) ==
  IF Includes(s, Host) /\ Match(s, DocumentPath) # Null
    THEN Match(s, DocumentPath)
    ELSE Text(s)

ExtractSpreadsheetId_AnyDocsUrl(s) ==
  IF Includes(s, Host) /\ Match(s, SpreadsheetPath) # Null
    THEN Match(s, SpreadsheetPath)
    ELSE Text(s)

ExtractSpreadsheetId(s) ==
  IF Includes(s, "docs.google.com/spreadsheets")
       /\ Match(s, SpreadsheetPath) # Null
    THEN Match(s, SpreadsheetPath)
    ELSE Text(s)

Extractors == {"extractDocumentId", "extractSpreadsheetId"}

NoExtract == [fn |-> "none", input |-> << >>, result |-> ""]

\* A caller applies one of the two functions to the input.
Extract(fn) ==
  /\ ext.fn = "none"
  /\ ext' = [ext EXCEPT !.fn = fn,
                        !.result = IF fn = "extractDocumentId"
                                     THEN ExtractDocumentId(ext.input)
                                     ELSE ExtractSpreadsheetId(ext.input)]
  /\ UNCHANGED <<creds, credsFile, args, tool, serverVars, sessionVars,
                 resolverVars, flowVars>>

\* ------------------------------------------------------ the HTTP port
\* parseArgs of the server entry point: the port from MCP_PORT and PORT.

DEFAULT_PORT == 12333

\* Number of characters of the value of an environment variable.
MaxChars == 3

Chars == {"0", "8", "x", "-"}

\* process.env.X: unset, or a string kept as its characters.
EnvVar(set, text) == [set |-> set, text |-> text]

Unset == EnvVar(FALSE, << >>)

EnvVars ==
  {Unset} \cup {EnvVar(TRUE, t) :
                   t \in UNION {[1..n -> Chars] : n \in 0..MaxChars}}

\* a || b on two such values, the right one possibly the literal "".
OrEnv(a, b) == IF a.set /\ a.text # << >> THEN a ELSE b

IsDigit(c) == c \in {"0", "8"}

DigitValue(c) == IF c = "8" THEN 8 ELSE 0

\* The value of the digits of t from position i on, after the value n of
\* those before; parseInt stops at the first character that is no digit.
RECURSIVE Digits(_, _, _)
Digits(t, i, n) ==
  IF i > Len(t) \/ ~IsDigit(t[i]) THEN n
  ELSE Digits(t, i + 1, 10 * n + DigitValue(t[i]))

\* parseInt(text, 10): an optional sign, then digits; NaN without a digit.
Number(nan, n) == [nan |-> nan, n |-> n]

ParseInt(t) ==
  LET signed == t # << >> /\ t[1] = "-"
      first == IF signed THEN 2 ELSE 1
  IN IF first > Len(t) \/ ~IsDigit(t[first]) THEN Number(TRUE, 0)
     ELSE Number(FALSE, IF signed THEN 0 - Digits(t, first, 0)
                                  ELSE Digits(t, first, 0))

\* parseInt(process.env.MCP_PORT || process.env.PORT || "", 10) || DEFAULT_PORT
ParseArgs_PortFirst(mcpPort, port) ==
  LET n == ParseInt(OrEnv(port, OrEnv(mcpPort, EnvVar(TRUE, << >>))).text)
  IN IF n.nan \/ n.n = 0 THEN DEFAULT_PORT ELSE n.n

ParseArgs(mcpPort, port) ==
  LET n == ParseInt(OrEnv(mcpPort, OrEnv(port, EnvVar(TRUE, << >>))).text)
  IN IF n.nan \/ n.n = 0 THEN DEFAULT_PORT ELSE n.n

NoArgs == [MCP_PORT |-> Unset, PORT |-> Unset, called |-> FALSE, port |-> 0]

\* main() calls parseArgs() and listens on the port it returns.
ParseArgsCall ==
  /\ ~args.called
  /\ args' = [args EXCEPT !.called = TRUE,
                          !.port = ParseArgs(args.MCP_PORT, args.PORT)]
  /\ UNCHANGED <<creds, credsFile, ext, tool, serverVars, sessionVars,
                 resolverVars, flowVars>>

\* ------------------------------------------------------ the two transports
\* One tools/call with arguments that the tool's schema accepts, handled by
\* the tool function registered in createServer (stdio) and by the
\* tools/call branch of handleJsonRpc (HTTP).

Limits == {0, 5}

\* The arguments object: whether it has a limit, and its members.
Arguments(hasLimit, limit, query, id, range) ==
  [hasLimit |-> hasLimit, limit |-> limit, query |-> query, id |-> id,
   range |-> range]

ListTools == {"list_documents", "list_spreadsheets"}

ValidArguments(name) ==
  IF name \in ListTools
    THEN {Arguments(FALSE, 0, q, Undef, Undef) : q \in {Undef, "q"}}
           \cup {Arguments(TRUE, l, q, Undef, Undef) :
                   l \in Limits, q \in {Undef, "q"}}
    ELSE {Arguments(FALSE, 0, Undef, "ABC123",
                    IF name = "get_sheet_data" THEN "A1:B2" ELSE Undef)}

\* The call a handler makes to tools/docs.ts or tools/sheets.ts.
Capability(fn, limit, query, id, range) ==
  [fn |-> fn, limit |-> limit, query |-> query, id |-> id, range |-> range]

NoCapability == Capability("none", 0, Undef, Undef, Undef)

CapabilityOf(name) ==
  CASE name = "get_document" -> "getDocument"
    [] name = "list_documents" -> "listDocuments"
    [] name = "get_spreadsheet" -> "getSpreadsheet"
    [] name = "get_sheet_data" -> "getSheetData"
    [] name = "list_spreadsheets" -> "listSpreadsheets"

\* z.number().optional().default(10): the default when limit is absent.
StdioCapability(name, a) ==
  Capability(CapabilityOf(name),
             IF name \in ListTools THEN (IF a.hasLimit THEN a.limit ELSE 10)
                                   ELSE 0,
             a.query, a.id, a.range)

\* args.limit || 10
HttpCapability(name, a) ==
  Capability(CapabilityOf(name),
             IF name \in ListTools
               THEN (IF a.hasLimit /\ a.limit # 0 THEN a.limit ELSE 10)
               ELSE 0,
             a.query, a.id, a.range)

\* What a handler did: the capability call it made, if any, and the
\* payload it returned.
Handled(capability, payload) ==
  [done |-> TRUE, capability |-> capability, payload |-> payload]

NotHandled == [done |-> FALSE, capability |-> NoCapability,
               payload |-> ToolResult("", FALSE)]

\* A handler around the capability call `c`: the gate, the call, and the
\* rendering of what came back or of what was thrown.
Handler(name, c, isAuth, outcome) ==
  IF ~isAuth THEN Handled(NoCapability, ToolResult(NotAuthenticatedText, TRUE))
  ELSE IF outcome = "reject"
    THEN Handled(c, ToolResult("Error: " \o RemoteErrorMessage, TRUE))
  ELSE Handled(c, ToolResult(RenderText(name, outcome), FALSE))

StdioHandler(name, a, isAuth, outcome) ==
  Handler(name, StdioCapability(name, a), isAuth, outcome)

HttpHandler(name, a, isAuth, outcome) ==
  Handler(name, HttpCapability(name, a), isAuth, outcome)

NoTool == [name |-> "none",
           arguments |-> Arguments(FALSE, 0, Undef, Undef, Undef),
           isAuth |-> FALSE, outcome |-> "data", stdio |-> NotHandled,
           http |-> NotHandled]

ToolCalls ==
  UNION {{[NoTool EXCEPT !.name = n, !.arguments = a, !.isAuth = s,
                          !.outcome = o] :
            a \in ValidArguments(n), s \in BOOLEAN, o \in RemoteOutcomes} :
           n \in ToolNames}

\* The call arrives over stdio.
StdioCall ==
  /\ ~tool.stdio.done
  /\ tool' = [tool EXCEPT !.stdio = StdioHandler(tool.name, tool.arguments,
                                                 tool.isAuth, tool.outcome)]
  /\ UNCHANGED <<creds, credsFile, ext, args, serverVars, sessionVars,
                 resolverVars, flowVars>>

\* The same call arrives in a POST /rpc.
HttpCall ==
  /\ ~tool.http.done
  /\ tool' = [tool EXCEPT !.http = HttpHandler(tool.name, tool.arguments,
                                               tool.isAuth, tool.outcome)]
  /\ UNCHANGED <<creds, credsFile, ext, args, serverVars, sessionVars,
                 resolverVars, flowVars>>

\* ------------------------------------------------------- specifications

\* The parts of the state that a specification leaves out stay as they are
\* here.
NoFlow == cli = NotRun /\ cb = [r \in Hits |-> IdleHit]

NoPure == ext = NoExtract /\ args = NoArgs /\ tool = NoTool

Init ==
  /\ configured \in BOOLEAN
  /\ instance = "null"
  /\ creds = EmptyTokens
  /\ credsFile \in FileStates
  /\ req = [r \in Slots |-> IdleSlot]
  /\ call = NoCall
  /\ pending = [k \in Callers |-> "none"]
  /\ inflight = NoneInFlight
  /\ secretFiles = NoSecretFiles
  /\ environ = Environ(Undef, Undef)
  /\ built = NotBuilt
  /\ NoFlow
  /\ NoPure

Next ==
  \/ \E r \in Slots : \E b \in Bodies(IdOf(r)) : Receive(r, b)
  \/ \E r \in Slots : Gate(r)
  \/ \E r \in Slots : Ensure(r)
  \/ \E r \in Slots, o \in RemoteOutcomes : Remote(r, o)
  \/ \E r \in Slots : Deliver(r)
  \/ \E f \in FileStates : FileChange(f)
  \/ ConfigChange

Spec == Init /\ [][Next]_vars

\* A GoogleOAuth object right after its construction, over any token file.
InitSession ==
  /\ configured = TRUE
  /\ instance = "constructed"
  /\ creds = EmptyTokens
  /\ credsFile \in FileStates \cup {NoDir}
  /\ req = [r \in Slots |-> IdleSlot]
  /\ call = NoCall
  /\ pending = [k \in Callers |-> "none"]
  /\ inflight = NoneInFlight
  /\ secretFiles = NoSecretFiles
  /\ environ = Environ(Undef, Undef)
  /\ built = NotBuilt
  /\ NoFlow
  /\ NoPure

NextSession ==
  \/ LoadTokensCall
  \/ IsAuthenticatedCall
  \/ GetAuthUrlCall
  \/ \E f \in Factories : FactoryCall(f)
  \/ \E t \in TokenSets : SaveTokensCall(t)
  \/ \E k \in Callers : ExchangeCall(k)
  \/ \E k \in Callers : ExchangeReject(k)
  \/ \E k \in Callers, g \in Grants : ExchangeReturn(k, g)
  \/ \E k \in Callers : RefreshCall(k)
  \/ \E k \in Callers : RefreshReject(k)
  \/ \E k \in Callers, at \in AccessTokens : RefreshReturn(k, at)
  \/ \E f \in FileStates \cup {NoDir} : FileChange(f)

SpecSession == InitSession /\ [][NextSession]_vars

\* The constructor of GoogleOAuth over every content of the two candidate
\* files and of the environment, called with every explicit config.
InitResolve ==
  /\ configured = TRUE
  /\ instance = "null"
  /\ creds = EmptyTokens
  /\ credsFile = NoFile
  /\ req = [r \in Slots |-> IdleSlot]
  /\ call = NoCall
  /\ pending = [k \in Callers |-> "none"]
  /\ inflight = NoneInFlight
  /\ secretFiles \in {[p \in {"root", "nested"} |->
                         IF p = "root" THEN a ELSE b] :
                        a \in SecretFiles("root"), b \in SecretFiles("nested")}
  /\ environ \in Environs
  /\ built = NotBuilt
  /\ NoFlow
  /\ NoPure

NextResolve == \E config \in Configs : Construct(config)

SpecResolve == InitResolve /\ [][NextResolve]_vars

\* bin/auth.ts started over any token file, with or without a client id and
\* secret to be found.
InitAuthFlow ==
  /\ configured \in BOOLEAN
  /\ instance = "null"
  /\ creds = EmptyTokens
  /\ credsFile \in FileStates
  /\ req = [r \in Slots |-> IdleSlot]
  /\ call = NoCall
  /\ pending = [k \in Callers |-> "none"]
  /\ inflight = NoneInFlight
  /\ secretFiles = NoSecretFiles
  /\ environ = Environ(Undef, Undef)
  /\ built = NotBuilt
  /\ NoFlow
  /\ NoPure

NextAuthFlow ==
  \/ RunAuthFlow
  \/ \E r \in Hits, p \in Paths, c \in CodeParams, e \in ErrorParams :
       CallbackRequest(r, p, c, e)
  \/ \E r \in Hits, g \in Grants : CallbackExchanged(r, g)
  \/ \E r \in Hits : CallbackFailed(r)
  \/ GraceElapsed

SpecAuthFlow == InitAuthFlow /\ [][NextAuthFlow]_vars

\* The rest of the state of the specifications of the pure functions.
InitPure ==
  /\ configured = TRUE
  /\ instance = "null"
  /\ creds = EmptyTokens
  /\ credsFile = NoFile
  /\ req = [r \in Slots |-> IdleSlot]
  /\ call = NoCall
  /\ pending = [k \in Callers |-> "none"]
  /\ inflight = NoneInFlight
  /\ secretFiles = NoSecretFiles
  /\ environ = Environ(Undef, Undef)
  /\ built = NotBuilt
  /\ NoFlow

\* Each extraction function over every input.
InitExtract ==
  /\ InitPure
  /\ ext \in {[NoExtract EXCEPT !.input = s] : s \in Inputs}
  /\ args = NoArgs
  /\ tool = NoTool

NextExtract == \E fn \in Extractors : Extract(fn)

SpecExtract == InitExtract /\ [][NextExtract]_vars

\* parseArgs over every value of the two variables.
InitPort ==
  /\ InitPure
  /\ ext = NoExtract
  /\ args \in {[NoArgs EXCEPT !.MCP_PORT = a, !.PORT = b] :
                 a \in EnvVars, b \in EnvVars}
  /\ tool = NoTool

NextPort == ParseArgsCall

SpecPort == InitPort /\ [][NextPort]_vars

\* Every valid tool call, over both transports in either order.
InitTransports ==
  /\ InitPure
  /\ ext = NoExtract
  /\ args = NoArgs
  /\ tool \in ToolCalls

NextTransports == StdioCall \/ HttpCall

SpecTransports == InitTransports /\ [][NextTransports]_vars

\* ================================================================ claims

\* A finished request on slot r, its body and its response.
Done(r) == req[r].pc = "done"

\* The body on slot r is a version 2.0 envelope of the method m.
Is(r, m) ==
  /\ req[r].body.kind = "envelope"
  /\ req[r].body.jsonrpc = "2.0"
  /\ req[r].body.method = m

\* The response is { jsonrpc, result, id } returned by handleJsonRpc, with
\* no error member.
IsResult(resp) ==
  /\ resp.via = "return"
  /\ resp.result.present
  /\ ~resp.error.present

\* The response is an error envelope with the code c.
IsError(resp, c) ==
  /\ resp.error.present
  /\ ~resp.result.present
  /\ resp.error.code = c

\* C1 (as stated): every version 2.0 tools/call handled while the token file
\* holds no usable refresh token is answered with a result envelope holding
\* isError = true and the fixed not-authenticated text, whatever the tool
\* name, and makes no remote call.
C1_EveryCallEnvelope ==
  \A r \in Slots :
    (Done(r) /\ Is(r, "tools/call") /\ ~req[r].stored)
      => /\ IsResult(req[r].resp)
         /\ req[r].resp.result.isError
         /\ req[r].resp.result.text = NotAuthenticatedText
         /\ req[r].remotes = 0

\* C1 (amended): the same, for the tools/call envelopes that carry a params
\* object; one without params is answered with error -32603 before the gate.
C1_NotAuthenticated ==
  \A r \in Slots :
    (Done(r) /\ Is(r, "tools/call") /\ req[r].body.params = "object"
       /\ ~req[r].stored)
      => /\ IsResult(req[r].resp)
         /\ req[r].resp.result.isError
         /\ req[r].resp.result.text = NotAuthenticatedText
         /\ req[r].resp.id = req[r].body.id
         /\ req[r].remotes = 0

\* C1 witness: an unauthenticated call of a tool that is not in the catalog
\* got the not-authenticated payload while the other slot got it for a
\* catalog tool.
C1_Witness ==
  \E r, q \in Slots :
    /\ Done(r) /\ Is(r, "tools/call") /\ ~req[r].stored
    /\ req[r].body.name = "no_such_tool"
    /\ req[r].resp.result.text = NotAuthenticatedText
    /\ Done(q) /\ Is(q, "tools/call") /\ ~req[q].stored
    /\ req[q].body.name = "get_sheet_data"
    /\ req[q].resp.result.text = NotAuthenticatedText

\* C2: an authenticated tools/call of a catalog tool in which the capability
\* call raised (while its arguments were evaluated, in ensureAuthenticated,
\* in the id extraction, or in the remote call) is answered with a result
\* envelope returned by handleJsonRpc, holding isError = true and a text,
\* and never with an error member or a propagated exception.
C2_ToolFailureIsResult ==
  \A r \in Slots :
    (Done(r) /\ Is(r, "tools/call") /\ req[r].body.params = "object"
       /\ req[r].isAuth /\ req[r].body.name \in ToolNames
       /\ req[r].raised # "none")
      => /\ IsResult(req[r].resp)
         /\ req[r].resp.result.isError
         /\ req[r].resp.result.text # ""
         /\ req[r].resp.id = req[r].body.id

\* C2 witness: one call failed in its remote call, another in
\* ensureAuthenticated after the token file changed behind the gate.
C2_Witness ==
  \E r, q \in Slots :
    /\ Done(r) /\ req[r].isAuth /\ req[r].raised = "RemoteError"
    /\ req[r].remotes = 1 /\ req[r].resp.result.isError
    /\ Done(q) /\ req[q].isAuth /\ req[q].raised = "Error"
    /\ req[q].resp.result.isError

\* C3: an envelope whose jsonrpc is not "2.0" is answered at once with error
\* -32600: no token load, no gate, no tool, no remote call, whatever its
\* method and params.
C3_InvalidVersion ==
  \A r \in Slots :
    (req[r].body.kind = "envelope" /\ req[r].body.jsonrpc # "2.0")
      => /\ Done(r)
         /\ IsError(req[r].resp, InvalidRequest)
         /\ req[r].resp.via = "return"
         /\ req[r].loads = 0
         /\ req[r].remotes = 0
         /\ ~req[r].isAuth
         /\ req[r].raised = "none"

\* C3 witness: a wrong-version tools/call of get_document, sent while the
\* token file holds a refresh token, got -32600 and the session singleton
\* was not even constructed.
C3_Witness ==
  \E r \in Slots :
    /\ Done(r) /\ req[r].body.jsonrpc = "1.0"
    /\ req[r].body.method = "tools/call"
    /\ req[r].body.name = "get_document"
    /\ req[r].stored /\ configured /\ instance = "null"
    /\ IsError(req[r].resp, InvalidRequest)

C5_ExactlyOneMember ==
  \A r \in Slots :
    Done(r) =>
      /\ req[r].resp.result.present # req[r].resp.error.present
      /\ req[r].resp.error.present =>
           /\ req[r].resp.error.code
                \in {ParseError, InvalidRequest, MethodNotFound, InternalError}
           /\ req[r].resp.error.message \notin {Undef, Null}

\* C5 witness: the internal-error path and the parse-error path both
\* answered.
C5_Witness ==
  \E r, q \in Slots :
    /\ Done(r) /\ IsError(req[r].resp, InternalError)
    /\ Done(q) /\ IsError(req[q].resp, ParseError) /\ req[q].resp.status = 400

\* C6: every response handleJsonRpc returns carries the id of the request on
\* its own slot, on every path, and never the id of the request on another
\* slot.
C6_IdEchoed ==
  \A r \in Slots :
    (Done(r) /\ req[r].resp.via = "return")
      => /\ req[r].resp.id = req[r].body.id
         /\ \A q \in Slots \ {r} :
              req[q].pc # "idle" /\ req[q].body.kind = "envelope"
                => req[r].resp.id # req[q].body.id

\* C6 witness: two requests finished side by side, a rendered tool result
\* and an internal error, each with its own id.
C6_Witness ==
  \E r, q \in Slots :
    /\ r # q
    /\ Done(r) /\ req[r].remotes = 1 /\ req[r].raised = "none"
    /\ req[r].resp.id = IdOf(r)
    /\ Done(q) /\ IsError(req[q].resp, InternalError)
    /\ req[q].resp.id = IdOf(q)

\* The names of the catalog in the order tools/list returns them.
CatalogOrder ==
  << "get_document", "list_documents", "get_spreadsheet", "get_sheet_data",
     "list_spreadsheets" >>

\* C7: handling initialize or tools/list returns the fixed payload (server
\* metadata; the five descriptors in order) whatever the session state, and
\* the step reads no token file and leaves the token file, the in-memory
\* credentials and the session singleton as they were.
C7_InitializeAndListAreFixed ==
  [][\A r \in Slots :
       (req[r].pc = "idle" /\ req'[r].pc # "idle"
          /\ req'[r].body.kind = "envelope" /\ req'[r].body.jsonrpc = "2.0"
          /\ req'[r].body.method \in {"initialize", "tools/list"})
         => /\ req'[r].pc = "done"
            /\ IsResult(req'[r].resp)
            /\ ~req'[r].resp.result.isError
            /\ req'[r].body.method = "initialize"
                 => req'[r].resp.result.kind = "initialize"
            /\ req'[r].body.method = "tools/list"
                 => /\ req'[r].resp.result.kind = "tools"
                    /\ [i \in DOMAIN req'[r].resp.result.tools |->
                          req'[r].resp.result.tools[i].name] = CatalogOrder
            /\ req'[r].loads = 0
            /\ req'[r].remotes = 0
            /\ creds' = creds
            /\ credsFile' = credsFile
            /\ instance' = instance]_vars

\* C7 witness: with the session authenticated by an earlier request,
\* tools/list and initialize were answered side by side with their payloads.
C7_Witness ==
  \E r, q \in Slots :
    /\ Done(r) /\ Is(r, "tools/list") /\ req[r].resp.result.kind = "tools"
    /\ Done(q) /\ Is(q, "initialize")
    /\ req[q].resp.result.kind = "initialize"
    /\ instance = "constructed" /\ IsAuthenticated(creds)

\* C8 (as stated): the catalog tools/list returns over HTTP is, descriptor
\* by descriptor, the catalog registered for stdio in createServer.
C8_CatalogsIdentical ==
  \A r \in Slots :
    (Done(r) /\ Is(r, "tools/list"))
      => HttpCatalog(req[r].resp.result.tools) = StdioCatalog

\* The refresh token of the token set t is a non-empty string.
NonEmptyRefresh(t) == t.refresh_token \in {"rt1", "rt2"}

\* C9: in every reachable state of the session isAuthenticated() is true
\* exactly when the in-memory credentials hold a non-empty refresh token
\* (an access token alone does not count), and a call of it returns that
\* value without reading the store or calling the remote service.
C9_IsAuthenticated ==
  /\ IsAuthenticated(creds) <=> NonEmptyRefresh(creds)
  /\ call.op = "isAuthenticated"
       => /\ call.ret <=> NonEmptyRefresh(creds)
          /\ ~call.threw
          /\ ~call.read
          /\ ~call.remote

\* C9 witness: isAuthenticated() returned false on a session that holds an
\* access token and no refresh token.
C9_Witness ==
  /\ call.op = "isAuthenticated"
  /\ ~call.ret
  /\ creds.access_token = "at1"
  /\ creds.refresh_token = Undef

\* C10: loadTokens() returns true exactly when the token file exists, can be
\* read, parses and holds a non-empty refresh token; then the in-memory
\* credentials are the file's token set; otherwise it returns false; it
\* never throws.
C10_LoadTokens ==
  call.op = "loadTokens"
    => /\ ~call.threw
       /\ call.ret <=> (call.file.kind = "tokens"
                          /\ NonEmptyRefresh(call.file.tokens))
       /\ call.ret => creds = call.file.tokens

\* C10 witness: a load that returned true installed the token set of the
\* file, which has since been overwritten with text that is no JSON.
C10_Witness ==
  /\ call.op = "loadTokens"
  /\ call.ret
  /\ call.file = FileOf("tokens", Full2)
  /\ creds = Full2
  /\ credsFile.kind = "garbage"

\* C11 (as stated): once refreshAccessToken() has failed because the
\* authorization server rejected the refresh token, the session is
\* unauthenticated: isAuthenticated() is false in the state the failure
\* leaves.
C11_RefreshFailureDemotes ==
  (call.op = "refresh" /\ call.threw /\ call.remote)
    => ~IsAuthenticated(creds)

\* C12: the session goes from unauthenticated to authenticated only in a
\* step in which loadTokens() returns true or exchangeCodeForTokens()
\* succeeds; no refresh, save, getAuthUrl, client factory, isAuthenticated,
\* failed load or failed exchange makes that transition.
C12_OnlyLoadOrExchange ==
  [][(~IsAuthenticated(creds) /\ IsAuthenticated(creds'))
       => \/ call'.op = "loadTokens" /\ call'.ret /\ ~call'.threw
          \/ call'.op = "exchange" /\ ~call'.threw]_vars

\* C12 witness: an exchange authenticated a session that was not, while a
\* refresh sent earlier, when the session still held a refresh token, is
\* outstanding.
C12_Witness ==
  /\ call.op = "exchange" /\ ~call.threw
  /\ ~call.was
  /\ IsAuthenticated(creds)
  /\ \E k \in Callers : pending[k] = "refresh"

\* C13 (as stated): an exchange or refresh whose request was sent before
\* another one's never writes its tokens, in memory and in the token file,
\* over the tokens that later request has already written.
C13_Serialized ==
  ~(/\ call.op \in {"exchange", "refresh"}
    /\ ~call.threw
    /\ call.stale)

\* C14: a load that directly follows saveTokens(T) parses from the token
\* file a token set field-equal to T, whatever the file held before the save
\* (another token set, text that is no JSON, no file, no directory), so
\* that a refresh token of the old file does not survive a T without one;
\* when T holds a refresh token the load installs T.
C14_SaveLoadRoundTrip ==
  (call.op = "loadTokens" /\ call.follows)
    => /\ call.file.kind = "tokens"
       /\ \A f \in TokenFields : call.file.tokens[f] = call.arg[f]
       /\ NonEmptyRefresh(call.arg) => (call.ret /\ creds = call.arg)
       /\ (call.over /\ ~NonEmptyRefresh(call.arg)) => ~call.ret

\* C14 witness: T without a refresh token was saved over a file that held
\* one, and the load that followed read T, with no refresh token.
C14_Witness ==
  /\ call.op = "loadTokens" /\ call.follows
  /\ call.arg = AccessOnly
  /\ call.over
  /\ call.file.tokens.refresh_token = Undef

\* The candidate file f has a section loadClientSecret can return.
Usable(f) == f.kind = "json" /\ (f.installed.present \/ f.web.present)

\* The section a usable file supplies: installed before web.
Supplied(f) == IF f.installed.present THEN f.installed ELSE f.web

\* What the secret files supply for a member of the section: the value in
\* the first usable file, root before nested; nothing without a usable file.
FileValue(member) ==
  IF Usable(secretFiles["root"]) THEN Supplied(secretFiles["root"])[member]
  ELSE IF Usable(secretFiles["nested"])
    THEN Supplied(secretFiles["nested"])[member]
  ELSE Undef

\* v is the first non-empty value of explicit, file, env, when there is one.
FirstOf(v, explicit, file, env) ==
  /\ Truthy(explicit) => v = explicit
  /\ (~Truthy(explicit) /\ Truthy(file)) => v = file
  /\ (~Truthy(explicit) /\ ~Truthy(file) /\ Truthy(env)) => v = env

\* C15: the constructor takes the client id, and independently the client
\* secret, from the first source with a non-empty value in the order
\* explicit config, client_secret.json, environment.
C15_ResolutionPriority ==
  built.called
    => /\ FirstOf(built.clientId, built.config.clientId,
                  FileValue("client_id"), environ.GOOGLE_CLIENT_ID)
       /\ FirstOf(built.clientSecret, built.config.clientSecret,
                  FileValue("client_secret"), environ.GOOGLE_CLIENT_SECRET)

\* C15 witness: the root file is no JSON, the nested file supplies a client
\* id and no secret, and the environment both; the id came from the file and
\* the secret from the environment.
C15_Witness ==
  /\ built.called /\ ~built.threw
  /\ built.config = Config(Undef, Undef, Undef)
  /\ secretFiles["root"].kind = "garbage"
  /\ environ = Environ("env.client_id", "env.client_secret")
  /\ built.clientId = "nested.web.client_id"
  /\ built.clientSecret = "env.client_secret"

\* JSON.parse accepts the text of the candidate file f.
Parses(f) == f.kind \in {"json", "null"}

\* loadClientSecret returned the credentials of the file f, and stopped
\* probing at the path `last`.
Returned(f, last) ==
  /\ built.fileConfig.found
  /\ built.fileConfig.clientId = Supplied(f).client_id
  /\ built.fileConfig.clientSecret = Supplied(f).client_secret
  /\ built.fileConfig.redirectUri
       = IF Supplied(f).listed /\ Supplied(f).redirect_uris # << >>
           THEN Supplied(f).redirect_uris[1]
           ELSE DefaultRedirectUri
  /\ built.fileConfig.probed[Len(built.fileConfig.probed)] = last

\* C16 (as stated): loadClientSecret probes root then nested, and the first
\* file that exists and parses wins: its credentials are returned, and when
\* it is the root file the nested one is not consulted.
C16_FirstParseableWins ==
  built.called
    => /\ built.fileConfig.probed \in {<< "root" >>, << "root", "nested" >>}
       /\ Parses(secretFiles["root"])
            => /\ Returned(secretFiles["root"], "root")
               /\ built.fileConfig.probed = << "root" >>
       /\ (~Parses(secretFiles["root"]) /\ Parses(secretFiles["nested"]))
            => Returned(secretFiles["nested"], "nested")

\* C16 (amended): the first file that exists, parses and holds an installed
\* or web section wins; a file without either is passed over like one that
\* does not parse.  Installed is preferred over web, the redirect URI is the
\* first listed one or the localhost default, and with no such file null is
\* returned after both locations were probed.
C16_FirstUsableWins ==
  built.called
    => /\ built.fileConfig.probed \in {<< "root" >>, << "root", "nested" >>}
       /\ Usable(secretFiles["root"])
            => /\ Returned(secretFiles["root"], "root")
               /\ built.fileConfig.probed = << "root" >>
       /\ (~Usable(secretFiles["root"]) /\ Usable(secretFiles["nested"]))
            => Returned(secretFiles["nested"], "nested")
       /\ (~Usable(secretFiles["root"]) /\ ~Usable(secretFiles["nested"]))
            => /\ ~built.fileConfig.found
               /\ built.fileConfig.probed = << "root", "nested" >>

\* C16 witness: the root file holds both layouts, installed without
\* redirect URIs, and the nested file is usable too; the installed section
\* of the root file was returned with the default redirect URI and the
\* nested location was not probed.
C16_Witness ==
  /\ built.called
  /\ secretFiles["root"].installed.present
  /\ ~secretFiles["root"].installed.listed
  /\ secretFiles["root"].web.listed
  /\ Usable(secretFiles["nested"])
  /\ built.fileConfig.clientId = "root.installed.client_id"
  /\ built.fileConfig.redirectUri = DefaultRedirectUri
  /\ built.fileConfig.probed = << "root" >>

\* C17: the constructor throws exactly when no source supplies a client id
\* or no source supplies a client secret; with both supplied by the explicit
\* config or by the environment it succeeds whatever the two files are.
C17_ThrowsIffMissing ==
  built.called
    => LET hasId == \/ Truthy(built.config.clientId)
                    \/ Truthy(FileValue("client_id"))
                    \/ Truthy(environ.GOOGLE_CLIENT_ID)
           hasSecret == \/ Truthy(built.config.clientSecret)
                        \/ Truthy(FileValue("client_secret"))
                        \/ Truthy(environ.GOOGLE_CLIENT_SECRET)
       IN /\ built.threw <=> ~(hasId /\ hasSecret)
          /\ (Truthy(environ.GOOGLE_CLIENT_ID)
                /\ Truthy(environ.GOOGLE_CLIENT_SECRET)) => ~built.threw

\* C17 witness: the root file is no JSON, the nested file cannot be read,
\* no explicit config is given, and construction succeeded from the
\* environment.
C17_Witness ==
  /\ built.called /\ ~built.threw
  /\ built.config = Config(Undef, Undef, Undef)
  /\ secretFiles["root"].kind = "garbage"
  /\ secretFiles["nested"].kind = "unreadable"
  /\ built.clientId = "env.client_id"
  /\ built.clientSecret = "env.client_secret"

\* C18 (as stated): no tools/call is answered with the not-authenticated
\* payload because the client id and secret cannot be resolved: a call that
\* got that payload had its token store loaded by the gate.
C18_MisconfigurationIsNotNotAuthenticated ==
  \A r \in Slots :
    (Done(r) /\ Is(r, "tools/call") /\ req[r].body.params = "object"
       /\ req[r].resp.result.text = NotAuthenticatedText)
      => req[r].loads >= 1

\* C19: the gate's decision is the outcome of a load made when the request
\* is dispatched (true exactly when the token file then holds a refresh
\* token and the session can be constructed), the tool function loads again
\* before it goes on, a remote call is issued only from a tool function
\* whose own load returned true, and a request that did not pass the gate
\* makes no remote call; nothing decided at startup or by an earlier request
\* is reused.
C19_FreshLoadBeforeRemote ==
  [][\A r \in Slots :
       /\ (req[r].pc = "idle" /\ req'[r].pc = "gate")
            => (req'[r].isAuth
                  <=> (HasRefreshToken(credsFile)
                         /\ (configured \/ instance = "constructed")))
       /\ (req[r].pc = "gate" /\ req'[r].pc = "ensure")
            => /\ req'[r].loaded <=> HasRefreshToken(credsFile)
               /\ req'[r].loads = req[r].loads + 1
       /\ req'[r].remotes > req[r].remotes
            => /\ req[r].pc = "ensure"
               /\ req[r].loaded
               /\ req[r].isAuth
               /\ req'[r].remotes = 1
       /\ (req'[r].pc # "idle" /\ ~req'[r].isAuth) => req'[r].remotes = 0]_vars

\* C19 witness: one request made its remote call while the token file held
\* a refresh token; the file then went away and the next request, with the
\* credentials still in memory, was answered not-authenticated without a
\* remote call.
C19_Witness ==
  \E r, q \in Slots :
    /\ Done(q) /\ req[q].remotes = 1 /\ req[q].raised = "none"
    /\ Done(r) /\ Is(r, "tools/call") /\ req[r].body.params = "object"
    /\ ~req[r].stored /\ req[r].remotes = 0
    /\ req[r].resp.result.text = NotAuthenticatedText
    /\ IsAuthenticated(creds)
    /\ credsFile.kind = "missing"

\* The arguments of the call lack a parameter the tool's schema requires.
MissingRequired(b) ==
  \/ b.args \in {"undefined", "norange"}
  \/ /\ b.args = "empty"
     /\ \E i \in DOMAIN HttpTools :
          /\ HttpTools[i].name = b.name
          /\ HttpTools[i].inputSchema.required # {}

\* C20 (as stated): an authenticated tools/call of a catalog tool whose
\* arguments are missing or lack a required parameter makes no remote call.
C20_ValidatedBeforeInvocation ==
  \A r \in Slots :
    (Is(r, "tools/call") /\ req[r].body.params = "object" /\ req[r].isAuth
       /\ req[r].body.name \in ToolNames /\ MissingRequired(req[r].body))
      => req[r].remotes = 0

\* The place of an event in the log of the flow, 0 when it is not there.
Pos(ev, r) ==
  IF \E i \in DOMAIN cli.log : cli.log[i] = Event(ev, r)
    THEN CHOOSE i \in DOMAIN cli.log : cli.log[i] = Event(ev, r)
    ELSE 0

\* Request r was answered with the confirmation page.
Confirmed(r) == cb[r].resp = Reply(200, "Authentication Successful!")

\* C21 (as stated): a callback request with a code and no error parameter
\* has the exchange invoked; once the exchange succeeded, the tokens were
\* persisted after the invocation, the confirmation page was returned after
\* that, and when the process has ended, it ended after the page was
\* returned, the listener stopping first, and with status 0.
C21_OrderThenExitZero ==
  \A r \in Hits :
    /\ (cb[r].pc # "idle" /\ cb[r].path = "/oauth2callback"
          /\ Truthy(cb[r].code) /\ cb[r].error = Null)
         => Pos("exchange", r) > 0
    /\ Confirmed(r)
         => /\ 0 < Pos("exchange", r)
            /\ Pos("exchange", r) < Pos("saved", r)
            /\ Pos("saved", r) < Pos("response", r)
            /\ credsFile.kind = "tokens"
            /\ cli.pc = "exited"
                 => /\ Pos("response", r) < Pos("stop", 0)
                    /\ Pos("stop", 0) < Pos("exit", 0)
                    /\ cli.exit = "0"

\* Request r has just been taken up by the fetch handler.
TakenUp(r) == cb[r].pc = "idle" /\ cb'[r].pc # "idle"

\* The handler of request r ended the process with status 1 and neither
\* invoked the exchange nor touched the tokens; the handler answered 404
\* and changed nothing else.
EndedAtOnce(r) ==
  /\ cli'.pc = "exited" /\ cli'.exit = "1"
  /\ cli'.exchanges = cli.exchanges
  /\ cb'[r].pc = "dead" /\ cb'[r].resp = NoReply
  /\ credsFile' = credsFile /\ creds' = creds

NotFoundOnly(r) ==
  /\ cb'[r].pc = "done" /\ cb'[r].resp.status = 404
  /\ cli' = cli /\ credsFile' = credsFile /\ creds' = creds
  /\ \A q \in Hits \ {r} : cb'[q] = cb[q]

\* C22 (as stated): a request to /oauth2callback that has an error parameter
\* ends the process at once with status 1, without an exchange and without
\* a write, whether or not it has a code; a request to another path is
\* answered 404 and changes nothing.
C22_ErrorParameterEnds ==
  [][\A r \in Hits :
       TakenUp(r) =>
         /\ (cb'[r].path = "/oauth2callback" /\ cb'[r].error # Null)
              => EndedAtOnce(r)
         /\ cb'[r].path # "/oauth2callback" => NotFoundOnly(r)]_vars

\* C22 (amended): the same for a request whose error parameter is not
\* empty.
C22_NonEmptyErrorEnds ==
  [][\A r \in Hits :
       TakenUp(r) =>
         /\ (cb'[r].path = "/oauth2callback" /\ Truthy(cb'[r].error))
              => EndedAtOnce(r)
         /\ cb'[r].path # "/oauth2callback" => NotFoundOnly(r)]_vars

\* C22 witness: one request to another path was answered 404, then a
\* callback with both an error and a code ended the process with status 1
\* before any exchange, the token file still without tokens.
C22_Witness ==
  \E r, q \in Hits :
    /\ cb[r].pc = "done" /\ cb[r].path = "/" /\ cb[r].resp.status = 404
    /\ cb[q].pc = "dead" /\ cb[q].path = "/oauth2callback"
    /\ Truthy(cb[q].error) /\ Truthy(cb[q].code)
    /\ cli.pc = "exited" /\ cli.exit = "1" /\ cli.exchanges = 0
    /\ credsFile.kind = "missing"

\* C23 (as stated): exchangeCodeForTokens is invoked at most once while the
\* callback server lives.
C23_AtMostOneExchange == cli.exchanges <= 1

\* C24: a POST /rpc whose body is no JSON is answered, by the catch of the
\* route, with status 400 and an error envelope of code -32700 and id null,
\* and its handler loaded no tokens and called no tool.
C24_UnparsableBody ==
  \A r \in Slots :
    (req[r].pc # "idle" /\ req[r].body.kind = "unparsable")
      => /\ Done(r)
         /\ req[r].resp.status = 400
         /\ req[r].resp.via = "catch"
         /\ IsError(req[r].resp, ParseError)
         /\ req[r].resp.id = Null
         /\ req[r].raised = "SyntaxError"
         /\ req[r].loads = 0
         /\ req[r].remotes = 0

\* C24 witness: such a request was answered while the token file held a
\* refresh token, and the session has not even been constructed.
C24_Witness ==
  \E r \in Slots :
    /\ Done(r) /\ req[r].body.kind = "unparsable"
    /\ req[r].stored /\ configured
    /\ instance = "null"
    /\ req[r].resp.status = 400

\* A load that returns true, an exchange or a refresh has just completed
\* without throwing.
Completes ==
  \/ \E k \in Callers : pending[k] # "none" /\ pending'[k] = "none"
                          /\ ~call'.threw
  \/ /\ call'.op = "loadTokens" /\ call'.ret
     /\ pending' = pending /\ credsFile' = credsFile
     /\ (call' # call \/ creds' # creds)

\* C27: when loadTokens returning true, exchangeCodeForTokens or
\* refreshAccessToken completes, the token file holds a token set and each
\* of its fields equals that field of the credentials in memory, whatever
\* exchanges and refreshes are in flight or came back before.
C27_WriteThrough ==
  [][Completes =>
       /\ credsFile'.kind = "tokens"
       /\ \A f \in TokenFields : credsFile'.tokens[f] = creds'[f]]_vars

\* C27 witness: an exchange came back after a request sent later than its
\* own had already written different tokens, and the file and the memory
\* both hold its grant.
C27_Witness ==
  /\ call.op = "exchange" /\ ~call.threw /\ call.stale
  /\ credsFile.kind = "tokens"
  /\ credsFile.tokens = creds
  /\ creds = call.arg

\* An exchange or a refresh has just failed: the remote call was rejected,
\* or the client refused to refresh without a refresh token.
Fails ==
  \/ \E k \in Callers : pending[k] # "none" /\ pending'[k] = "none"
                          /\ call'.threw
  \/ /\ pending' = pending /\ call' # call
     /\ call'.op = "refresh" /\ call'.threw

\* C28: a failed exchange or refresh leaves the token file and the
\* credentials in memory as they were.
C28_FailureChangesNothing ==
  [][Fails => (creds' = creds /\ credsFile' = credsFile)]_vars

\* C28 witness: the authorization server rejected a refresh of an
\* authenticated session, and the refresh token is still in memory and in
\* the file.
C28_Witness ==
  /\ call.op = "refresh" /\ call.threw /\ call.remote /\ call.was
  /\ IsAuthenticated(creds)
  /\ HasRefreshToken(credsFile)
  /\ credsFile.tokens = creds

\* C29 (as stated): right after loadTokens returns, isAuthenticated() is
\* what it returned.
C29_GateAgreesWithSession ==
  call.op = "loadTokens" => (IsAuthenticated(creds) <=> call.ret)

\* C29 (amended): right after loadTokens returns true isAuthenticated() is
\* true, and right after it returns false isAuthenticated() is what it was
\* before the call.
C29_LoadNeverDemotes ==
  call.op = "loadTokens"
    => /\ call.ret => IsAuthenticated(creds)
       /\ ~call.ret => (IsAuthenticated(creds) <=> call.was)

\* C29 witness: the token file is gone after an earlier load had installed
\* its refresh token; loadTokens returns false and isAuthenticated() is
\* still true.
C29_Witness ==
  /\ call.op = "loadTokens" /\ ~call.ret /\ call.was
  /\ credsFile.kind = "missing"
  /\ IsAuthenticated(creds)

\* The path pattern an extraction function looks for.
PathOf(fn) ==
  IF fn = "extractDocumentId" THEN DocumentPath ELSE SpreadsheetPath

\* The places of s where the path is followed by at least one character of
\* an identifier.
Patterns(s, path) ==
  {j \in 1..Len(s) : s[j] = path /\ IdRun(s, j + 1) # ""}

\* The input is a docs.google.com URL whose path holds the pattern: the
\* places of the pattern behind the host.
InUrl(s, path) ==
  {j \in Patterns(s, path) : \E i \in 1..(j - 1) : s[i] = Host}

First(places) == CHOOSE j \in places : \A h \in places : j <= h

\* C25 (as stated): applied to a docs.google.com URL whose path holds
\* /document/d/<id> (for spreadsheets /spreadsheets/d/<id>), an extraction
\* function returns <id>; applied to anything else it returns its input.
C25_UrlOrUnchanged ==
  ext.fn # "none"
    => LET at == InUrl(ext.input, PathOf(ext.fn))
       IN IF at # {} THEN ext.result = IdRun(ext.input, First(at) + 1)
                     ELSE ext.result = Text(ext.input)

\* What the input has to contain for a function to look for its pattern:
\* docs.google.com, and for spreadsheets /spreadsheets right behind it.
Looks(fn, s) ==
  IF fn = "extractDocumentId"
    THEN \E i \in 1..Len(s) : s[i] = Host
    ELSE \E i \in 1..Len(s) :
           s[i] = Host /\ i < Len(s) /\ s[i + 1] = SpreadsheetPath

\* C25 (amended): when the input contains docs.google.com (for
\* spreadsheets docs.google.com/spreadsheets) and, anywhere, the path
\* pattern followed by an identifier character, the result is the run of
\* identifier characters behind the leftmost such pattern; otherwise it is
\* the input.
C25_PatternAnywhere ==
  ext.fn # "none"
    => LET at == Patterns(ext.input, PathOf(ext.fn))
       IN IF Looks(ext.fn, ext.input) /\ at # {}
            THEN ext.result = IdRun(ext.input, First(at) + 1)
            ELSE ext.result = Text(ext.input)

\* C25 witness: https://docs.google.com/document/d/ABC123/edit gives ABC123.
C25_Witness ==
  /\ ext.fn = "extractDocumentId"
  /\ ext.input = <<"https://", Host, DocumentPath, "ABC123", "/edit">>
  /\ ext.result = "ABC123"

\* The variable is set to a string that is not empty.
NonEmpty(v) == v.set /\ v.text # << >>

\* The value of the first non-empty of MCP_PORT and PORT, the empty string
\* when there is none.
Winning == IF NonEmpty(args.MCP_PORT) THEN args.MCP_PORT.text
           ELSE IF NonEmpty(args.PORT) THEN args.PORT.text
           ELSE << >>

\* The string is a decimal numeral, and the number it denotes.
IsNumeral(t) == t # << >> /\ \A i \in 1..Len(t) : IsDigit(t[i])

RECURSIVE Decimal(_)
Decimal(t) ==
  IF t = << >> THEN 0
  ELSE 10 * Decimal(SubSeq(t, 1, Len(t) - 1)) + DigitValue(t[Len(t)])

\* C26 (as stated): the port is the number that the first non-empty of
\* MCP_PORT and PORT denotes, and 12333 when neither is set or non-empty.
C26_FirstNonEmptyIsPort ==
  args.called
    => /\ IsNumeral(Winning) => args.port = Decimal(Winning)
       /\ Winning = << >> => args.port = DEFAULT_PORT

\* C26 (amended): the port is what parseInt makes of the first non-empty of
\* MCP_PORT and PORT, which for a numeral other than zero is its number,
\* and it is 12333 when that is no number or is 0, or when neither variable
\* is set or non-empty; PORT is not looked at when MCP_PORT is non-empty.
C26_ParsedOrDefault ==
  args.called
    => /\ args.port = IF ParseInt(Winning).nan \/ ParseInt(Winning).n = 0
                        THEN DEFAULT_PORT
                        ELSE ParseInt(Winning).n
       /\ (IsNumeral(Winning) /\ Decimal(Winning) # 0)
            => args.port = Decimal(Winning)
       /\ (IsNumeral(Winning) /\ Decimal(Winning) = 0)
            => args.port = DEFAULT_PORT

\* C26 witness: MCP_PORT=80 and PORT=8 give port 80.
C26_Witness ==
  /\ args.called
  /\ args.MCP_PORT = EnvVar(TRUE, <<"8", "0">>)
  /\ args.PORT = EnvVar(TRUE, <<"8">>)
  /\ args.port = 80

\* Both handlers have answered the call.
BothHandled == tool.stdio.done /\ tool.http.done

\* C30 (as stated): for the same tool, the same valid arguments, the same
\* session state and the same remote response, the stdio handler and the
\* HTTP handler make the same capability call with the same parameters and
\* return the same payload.
C30_SameToolSemantics ==
  BothHandled
    => /\ tool.stdio.capability = tool.http.capability
       /\ tool.stdio.payload = tool.http.payload

====
